---- MODULE Spec2Model ----
(***************************************************************************)
(* Model of the invoice pipeline of InvoiceParserSystem:                   *)
(*   - agents/validator_agent.py  ValidatorAgent (normalize, the four      *)
(*     checks, run_data)                                                   *)
(*   - agents/ocr_agent.py, agents/parser_agent.py, agents/exporter_agent  *)
(*     as driven by the two upload endpoints                               *)
(*   - api/gateway.py process_invoice, api/invoice_routes.py upload_invoice*)
(*                                                                         *)
(* Representation.  A Python str is a sequence of one-character strings.   *)
(* A Python float is an exact rational [n, d] in lowest terms (d > 0); the *)
(* code's == / != / > on floats are the same comparisons on rationals.     *)
(* A JSON value is a tagged record: Num, Str, Null, List, Obj.  A mapping  *)
(* is a function whose DOMAIN is the set of keys that are present.         *)
(***************************************************************************)
EXTENDS Integers, Sequences, FiniteSets, TLC

VARIABLES
    today,      \* datetime.now().date() as <<year, month, day>>
    arg,        \* the mapping handed to run_data, as the caller built it
    data,       \* the caller's mapping after the call (line items are shared)
    outcome,    \* "none" | "returned" | "raised"
    result,     \* the ValidationResult of the last call that returned
    ran,        \* the methods the last run_data call invoked, in call order
    gcReady,    \* ExporterAgent.gc is not None
    req,        \* the upload request in progress
    pc,         \* position of the request handler
    calls,      \* stages invoked by the current request, in order
    invoices,   \* Invoice rows committed, in commit order
    exports,    \* Export rows committed, in commit order
    response,   \* the HTTP response of the current request
    served      \* number of requests started

vars == <<today, arg, data, outcome, result, ran, gcReady, req, pc, calls,
          invoices, exports, response, served>>

valVars == <<arg, data, outcome, result, ran>>
gwVars == <<gcReady, req, pc, calls, invoices, exports, response, served>>

(***************************************************************************)
(* Bounds of the model                                                     *)
(***************************************************************************)
MaxItems == 2       \* longest line_items list drawn as input
MaxQty == 2         \* largest quantity drawn as input
MaxRequests == 2    \* upload requests per behaviour
MaxLines == 2       \* most item lines in a text given to the parser
MaxUploads == 1     \* upload requests per behaviour of the store

(***************************************************************************)
(* Strings                                                                 *)
(***************************************************************************)
Digits == <<"0", "1", "2", "3", "4", "5", "6", "7", "8", "9">>

Space == {" ", "\t", "\n", "\r", "\f"}

IsSpace(c) == c \in Space

RECURSIVE LStrip(_)
LStrip(s) ==
    IF s # <<>> /\ IsSpace(Head(s)) THEN LStrip(Tail(s)) ELSE s

RECURSIVE RStrip(_)
RStrip(s) ==
    IF s # <<>> /\ IsSpace(s[Len(s)]) THEN RStrip(SubSeq(s, 1, Len(s) - 1)) ELSE s

\* strips one whitespace character at each end only
Strip_Once(s) ==
    LET l == IF s # <<>> /\ IsSpace(Head(s)) THEN Tail(s) ELSE s
    IN  IF l # <<>> /\ IsSpace(l[Len(l)]) THEN SubSeq(l, 1, Len(l) - 1) ELSE l

\* str.strip()
Strip(s) == RStrip(LStrip(s))

\* str.replace(old, new) for one-character old and new
Replace(s, old, new) == [i \in 1..Len(s) |-> IF s[i] = old THEN new ELSE s[i]]

\* str.startswith(prefix)
StartsWith(s, prefix) ==
    Len(s) >= Len(prefix) /\ SubSeq(s, 1, Len(prefix)) = prefix

AllDigits(s) ==
    LET IsDigit(c) == \E i \in 1..10 : Digits[i] = c
    IN  \A i \in 1..Len(s) : IsDigit(s[i])

RECURSIVE DigitsVal(_)
DigitsVal(s) ==
    LET DigitVal(c) == (CHOOSE i \in 1..10 : Digits[i] = c) - 1
    IN
    IF s = <<>> THEN 0
    ELSE 10 * DigitsVal(SubSeq(s, 1, Len(s) - 1)) + DigitVal(s[Len(s)])

RECURSIVE Pow10(_)
Pow10(k) == IF k = 0 THEN 1 ELSE 10 * Pow10(k - 1)

\* str(n) for n >= 0
RECURSIVE Decimal(_)
Decimal(n) ==
    IF n < 10 THEN <<Digits[n + 1]>>
    ELSE Append(Decimal(n \div 10), Digits[(n % 10) + 1])

\* decimal digits of n, zero-padded on the left to width w
RECURSIVE Pad(_, _)
Pad(n, w) ==
    IF w = 0 THEN <<>> ELSE Append(Pad(n \div 10, w - 1), Digits[(n % 10) + 1])

(***************************************************************************)
(* Floats as exact rationals                                               *)
(***************************************************************************)
RECURSIVE GCD(_, _)
GCD(a, b) == IF b = 0 THEN a ELSE GCD(b, a % b)

Rat(n, d) ==
    LET Abs(x) == IF x < 0 THEN -x ELSE x
    IN
    LET g == GCD(Abs(n), d) IN [n |-> n \div g, d |-> d \div g]

RatInt(n) == [n |-> n, d |-> 1]

RatAdd(a, b) == Rat(a.n * b.d + b.n * a.d, a.d * b.d)

RatMul(a, b) == Rat(a.n * b.n, a.d * b.d)

RatDiv(a, b) ==
    IF b.n > 0 THEN Rat(a.n * b.d, a.d * b.n) ELSE Rat(-(a.n * b.d), a.d * (-b.n))

RatGt(a, b) == a.n * b.d > b.n * a.d

(***************************************************************************)
(* Double arithmetic.  A float is written as the decimal it was read from: *)
(* [n, d] is the double nearest to n/d.  The result of an operation is     *)
(* written [n, d] too when it is the double nearest to the exact result.   *)
(* When the rounding of the operands pushes it to a neighbouring double it *)
(* is written [n, d, ulp], the double ulp steps from the one nearest to    *)
(* n/d.  Those results are listed for the amounts the model draws; every   *)
(* other operation on them gives the nearest double.                       *)
(***************************************************************************)
\* a + b
FloatAdd(a, b) ==
    LET InexactSums ==
            { [a |-> Rat(53, 10), b |-> Rat(53, 50), ulp |-> -1],  \* 5.3 + 1.06 is 6.359999999999999
              [a |-> Rat(49, 5), b |-> Rat(49, 25), ulp |-> 1] }   \* 9.8 + 1.96 is 11.760000000000002
        hit == {x \in InexactSums : x.a = a /\ x.b = b}
        sum == RatAdd(a, b)
    IN  IF hit = {} THEN sum
        ELSE [n |-> sum.n, d |-> sum.d, ulp |-> (CHOOSE x \in hit : TRUE).ulp]

\* a / b
FloatDiv(a, b) ==
    LET InexactQuotients ==
            { [a |-> Rat(14, 25), b |-> Rat(14, 5), ulp |-> 1] }   \* 0.56 / 2.8 is 0.20000000000000004
        hit == {x \in InexactQuotients : x.a = a /\ x.b = b}
        quotient == RatDiv(a, b)
    IN  IF hit = {} THEN quotient
        ELSE [n |-> quotient.n, d |-> quotient.d, ulp |-> (CHOOSE x \in hit : TRUE).ulp]

\* a > b
FloatGt(a, b) ==
    LET Ulp(x) == IF "ulp" \in DOMAIN x THEN x.ulp ELSE 0
    IN  RatGt(a, b) \/ (a.n * b.d = b.n * a.d /\ Ulp(a) > Ulp(b))

(***************************************************************************)
(* JSON values                                                             *)
(***************************************************************************)
Num(q) == [t |-> "num", v |-> q]
Str(s) == [t |-> "str", s |-> s]
Null == [t |-> "null"]
List(xs) == [t |-> "list", items |-> xs]
Obj(f) == [t |-> "obj", f |-> f]

Has(m, k) == k \in DOMAIN m

NoMapping == [k \in {} |-> Null]

\* m[k] = v on a mapping
Put(m, k, v) == [x \in (DOMAIN m) \cup {k} |-> IF x = k THEN v ELSE m[x]]

\* float(<str>): surrounding whitespace, an optional sign, decimal digits with
\* at most one point and at least one digit; anything else is a ValueError.
ParseFloat(s0) ==
    LET FloatOfParts(neg, ip, fp) ==
            IF AllDigits(ip) /\ AllDigits(fp) /\ Len(ip) + Len(fp) >= 1
            THEN [ok |-> TRUE,
                  v |-> Rat((IF neg THEN -1 ELSE 1)
                                * (DigitsVal(ip) * Pow10(Len(fp)) + DigitsVal(fp)),
                            Pow10(Len(fp)))]
            ELSE [ok |-> FALSE, exc |-> "ValueError"]
        FloatOfUnsigned(neg, body, dots) ==
            IF Cardinality(dots) > 1 THEN [ok |-> FALSE, exc |-> "ValueError"]
            ELSE IF dots = {} THEN FloatOfParts(neg, body, <<>>)
            ELSE FloatOfParts(neg, SubSeq(body, 1, (CHOOSE i \in dots : TRUE) - 1),
                              SubSeq(body, (CHOOSE i \in dots : TRUE) + 1, Len(body)))
        FloatOfSigned(neg, body) ==
            FloatOfUnsigned(neg, body, {i \in 1..Len(body) : body[i] = "."})
        FloatOfStripped(s) ==
            FloatOfSigned(s # <<>> /\ Head(s) = "-",
                          IF s # <<>> /\ Head(s) \in {"+", "-"} THEN Tail(s) ELSE s)
    IN  FloatOfStripped(Strip(s0))

\* float(x) for a JSON value
ToFloat(x) ==
    CASE x.t = "num" -> [ok |-> TRUE, v |-> x.v]
      [] x.t = "str" -> ParseFloat(x.s)
      [] OTHER -> [ok |-> FALSE, exc |-> "TypeError"]

(***************************************************************************)
(* Dates                                                                   *)
(***************************************************************************)
\* datetime.fromisoformat(s).date(): YYYY-MM-DD, optionally followed by a
\* separator and a time; anything else is a ValueError.
FromIsoFormat(s) ==
    LET IsLeap(y) == (y % 4 = 0 /\ y % 100 # 0) \/ y % 400 = 0
        DaysIn(y, m) ==
            CASE m \in {1, 3, 5, 7, 8, 10, 12} -> 31
              [] m \in {4, 6, 9, 11} -> 30
              [] OTHER -> IF IsLeap(y) THEN 29 ELSE 28
        \* the HH:MM[:SS] part that may follow the date and a one-character separator
        IsIsoTime(t) ==
            /\ Len(t) \in {5, 8}
            /\ AllDigits(SubSeq(t, 1, 2)) /\ DigitsVal(SubSeq(t, 1, 2)) <= 23
            /\ t[3] = ":"
            /\ AllDigits(SubSeq(t, 4, 5)) /\ DigitsVal(SubSeq(t, 4, 5)) <= 59
            /\ Len(t) = 8 =>
                  /\ t[6] = ":"
                  /\ AllDigits(SubSeq(t, 7, 8)) /\ DigitsVal(SubSeq(t, 7, 8)) <= 59
        IsoDate(y, m, d) ==
            IF y >= 1 /\ m \in 1..12 /\ d >= 1 /\ d <= DaysIn(y, m)
            THEN [ok |-> TRUE, date |-> <<y, m, d>>]
            ELSE [ok |-> FALSE, exc |-> "ValueError"]
    IN
    IF /\ Len(s) \in {10, 16, 19}
       /\ AllDigits(SubSeq(s, 1, 4)) /\ s[5] = "-"
       /\ AllDigits(SubSeq(s, 6, 7)) /\ s[8] = "-"
       /\ AllDigits(SubSeq(s, 9, 10))
       /\ Len(s) > 10 => IsIsoTime(SubSeq(s, 12, Len(s)))
    THEN IsoDate(DigitsVal(SubSeq(s, 1, 4)), DigitsVal(SubSeq(s, 6, 7)),
                 DigitsVal(SubSeq(s, 9, 10)))
    ELSE [ok |-> FALSE, exc |-> "ValueError"]

\* strftime("%Y-%m-%d")
StrfDate(dt) == Pad(dt[1], 4) \o <<"-">> \o Pad(dt[2], 2) \o <<"-">> \o Pad(dt[3], 2)

\* date.__gt__
DateGt(a, b) ==
    \/ a[1] > b[1]
    \/ a[1] = b[1] /\ a[2] > b[2]
    \/ a[1] = b[1] /\ a[2] = b[2] /\ a[3] > b[3]

\* str(x): a str is itself; the text of None (and of every other non-str value
\* drawn here) neither reads as a date nor starts with "INV-"
StrOf(x) == IF x.t = "str" THEN x.s ELSE <<"N", "o", "n", "e">>

\* bool(x) is False
Falsy(x) ==
    CASE x.t = "null" -> TRUE
      [] x.t = "str" -> x.s = <<>>
      [] x.t = "num" -> x.v.n = 0
      [] x.t = "list" -> x.items = <<>>
      [] x.t = "obj" -> DOMAIN x.f = {}

RECURSIVE Flatten(_)
Flatten(ss) == IF ss = <<>> THEN <<>> ELSE Head(ss) \o Flatten(Tail(ss))

(***************************************************************************)
(* ValidatorAgent.normalize                                                *)
(***************************************************************************)
NumericFields == <<"quantity", "unit_price", "total">>
TotalFields == <<"subtotal", "tax", "total">>

RECURSIVE CoerceFields(_, _)
CoerceFields(st, ks) ==
    LET \* m[k] = float(m[k]) with f the outcome of float(m[k]); st = [raised, m, exc]
        Coerced(k, f) ==
            IF f.ok THEN [st EXCEPT !.m = Put(st.m, k, Num(f.v))]
            ELSE [st EXCEPT !.raised = TRUE, !.exc = f.exc]
        \* one `if k in m: m[k] = float(m[k])`
        CoerceField(k) ==
            IF st.raised \/ ~Has(st.m, k) THEN st ELSE Coerced(k, ToFloat(st.m[k]))
    IN
    IF ks = <<>> THEN st ELSE CoerceFields(CoerceField(Head(ks)), Tail(ks))

\* body of the loop over line items for one item, which is mutated in place
NormalizeItem(item) ==
    LET ItemOutcome(st) == [raised |-> st.raised, item |-> Obj(st.m), exc |-> st.exc]
    IN
    CASE item.t = "obj" ->
            ItemOutcome(CoerceFields([raised |-> FALSE, m |-> item.f, exc |-> "none"],
                                     NumericFields))
      [] item.t \in {"num", "null"} ->
            \* `"quantity" in item`: argument is not iterable
            [raised |-> TRUE, item |-> item, exc |-> "TypeError"]
      [] OTHER ->
            \* a str or list item that holds none of the three names
            [raised |-> FALSE, item |-> item, exc |-> "none"]

\* the loop, from the first item on; it stops at the first item that raises
RECURSIVE NormalizeItems(_)
NormalizeItems(items) ==
    LET \* the items after the loop reached item h: r is the outcome for the rest
        ItemsOutcome(h, r) ==
            [raised |-> r.raised, items |-> <<h.item>> \o r.items, exc |-> r.exc]
        NormalizeRest(h, rest) ==
            IF h.raised
            THEN [raised |-> TRUE, items |-> <<h.item>> \o rest, exc |-> h.exc]
            ELSE ItemsOutcome(h, NormalizeItems(rest))
    IN
    IF items = <<>> THEN [raised |-> FALSE, items |-> <<>>, exc |-> "none"]
    ELSE NormalizeRest(NormalizeItem(Head(items)), Tail(items))

NormalizeDate(m) ==
    LET \* m["date"] = <the parsed date>.strftime("%Y-%m-%d"), or the except branch
        DateNormalized(p) == IF p.ok THEN Put(m, "date", Str(StrfDate(p.date))) ELSE m
    IN
    IF ~Has(m, "date") THEN m
    ELSE DateNormalized(FromIsoFormat(Replace(StrOf(m["date"]), "/", "-")))

NormalizeVendor(m) ==
    IF Has(m, "vendor") /\ m["vendor"].t = "str"
    THEN Put(m, "vendor", Str(Strip(m["vendor"].s)))
    ELSE m

\* the outcome is [raised, m, exc]; the list object is the caller's, so m's
\* line_items is also what the caller sees afterwards
NormalizeLineItems(m) ==
    LET ListOutcome(r) ==
            [raised |-> r.raised, m |-> Put(m, "line_items", List(r.items)), exc |-> r.exc]
        \* the loop over li = m["line_items"]
        LineItemsLoop(li) ==
            CASE li.t = "list" -> ListOutcome(NormalizeItems(li.items))
              [] li.t \in {"null", "num"} ->
                    \* `for item in None`
                    [raised |-> TRUE, m |-> m, exc |-> "TypeError"]
              [] li.t = "obj" ->
                    \* iterates the keys; a key named like a numeric field is
                    \* then indexed as item["quantity"]
                    IF \E i \in 1..3 : NumericFields[i] \in DOMAIN li.f
                    THEN [raised |-> TRUE, m |-> m, exc |-> "TypeError"]
                    ELSE [raised |-> FALSE, m |-> m, exc |-> "none"]
              [] OTHER ->
                    \* a str: iterates single characters, none holds a name
                    [raised |-> FALSE, m |-> m, exc |-> "none"]
    IN
    IF ~Has(m, "line_items") THEN [raised |-> FALSE, m |-> m, exc |-> "none"]
    ELSE LineItemsLoop(m["line_items"])

NormalizeTotals(d, b) ==
    LET \* what normalize leaves: c is the state after the totals were coerced, b the
        \* state after the loop over the line items
        Normalized(c) ==
            [raised |-> c.raised, exc |-> c.exc, value |-> c.m,
             caller |-> IF Has(d, "line_items") THEN Put(d, "line_items", b.m["line_items"])
                        ELSE d]
    IN  Normalized(CoerceFields(b, TotalFields))

\* normalize(data): `value` is the mapping returned, `caller` is data after
\* the call (data.copy() is shallow: the line items are shared)
Normalize(d) == NormalizeTotals(d, NormalizeLineItems(NormalizeVendor(NormalizeDate(d))))

(***************************************************************************)
(* ValidatorAgent.validate_schema with the default schema (Draft 7)        *)
(***************************************************************************)
RequiredTop == <<"invoice_number", "date", "vendor", "line_items",
                 "subtotal", "tax", "total">>
RequiredItem == <<"description", "quantity", "unit_price", "total">>
SchemaError(validator, path, what) ==
    [validator |-> validator, path |-> path, message |-> what]

\* "required": one error per missing name, in the order of the list
RequiredErrors(m, names, path) ==
    LET missing == SelectSeq(names, LAMBDA k : ~Has(m, k))
    IN  [i \in 1..Len(missing) |-> SchemaError("required", path, missing[i])]

\* "properties": one type error per present property of the wrong type
TypeErrors(m, names, path) ==
    LET StringProps == {"invoice_number", "date", "vendor", "description"}
        \* {"type": ...} of a property of the schema
        TypeConforms(k, x) ==
            CASE k \in StringProps -> x.t = "str"
              [] k = "line_items" -> x.t = "list"
              [] OTHER -> x.t \in {"num", "str"}
        bad == SelectSeq(names, LAMBDA k : Has(m, k) /\ ~TypeConforms(k, m[k]))
    IN  [i \in 1..Len(bad) |-> SchemaError("type", Append(path, bad[i]), bad[i])]

LineItemsErrors(m) ==
    LET \* the "items" schema applied to the item at list index i (from 0)
        ItemErrors(item, i) ==
            LET path == <<"line_items", ToString(i)>>
            IN  IF item.t # "obj" THEN <<SchemaError("type", path, "object")>>
                ELSE RequiredErrors(item.f, RequiredItem, path)
                        \o TypeErrors(item.f, RequiredItem, path)
    IN
    IF Has(m, "line_items") /\ m["line_items"].t = "list"
    THEN LET items == m["line_items"].items
         IN  Flatten([i \in 1..Len(items) |-> ItemErrors(items[i], i - 1)])
    ELSE <<>>

ValidateSchema(m) ==
    RequiredErrors(m, RequiredTop, <<>>)
        \o TypeErrors(m, RequiredTop, <<>>)
        \o LineItemsErrors(m)

(***************************************************************************)
(* ValidatorAgent.validate_dates                                           *)
(***************************************************************************)
ValidateDates(m, now) ==
    LET \* the checks on p, the outcome of parsing the date
        DateErrors(p) ==
            IF ~p.ok THEN <<[kind |-> "Invalid date format", date |-> m["date"]]>>
            ELSE IF DateGt(p.date, now)
                 THEN <<[kind |-> "is in the future", date |-> m["date"]]>>
                 ELSE <<>>
    IN
    IF ~Has(m, "date") \/ Falsy(m["date"])
    THEN <<[kind |-> "Missing invoice date"]>>
    ELSE DateErrors(FromIsoFormat(Replace(StrOf(m["date"]), "/", "-")))

(***************************************************************************)
(* ValidatorAgent.validate_business_rules                                  *)
(***************************************************************************)
\* data.get(k, 0)
GetOrZero(m, k) == IF Has(m, k) THEN m[k] ELSE Num(RatInt(0))

ItemsOf(m) ==
    IF Has(m, "line_items") /\ m["line_items"].t = "list"
    THEN m["line_items"].items ELSE <<>>

\* float(item[k]) does not raise
ItemFloatOk(item, k) == item.t = "obj" /\ Has(item.f, k) /\ ToFloat(item.f[k]).ok

ItemFloat(item, k) == ToFloat(item.f[k]).v

\* first loop: errs so far; stops at the first item whose fields raise
RECURSIVE ItemMismatches(_, _)
ItemMismatches(items, i) ==
    LET \* the entry appended for the item at index i (from 1), whose quantity times
        \* unit_price is `expected`
        ItemMismatch(item, expected) ==
            IF ItemFloat(item, "total") # expected
            THEN <<[kind |-> "Line item total mismatch", index |-> i - 1,
                    expected |-> expected, got |-> item.f["total"]]>>
            ELSE <<>>
        MismatchesFrom(here, rest) == [raised |-> rest.raised, errs |-> here \o rest.errs]
    IN
    IF i > Len(items) THEN [raised |-> FALSE, errs |-> <<>>]
    ELSE IF ~(\A j \in 1..3 : ItemFloatOk(items[i], NumericFields[j]))
         THEN [raised |-> TRUE, errs |-> <<>>]
         ELSE MismatchesFrom(
                  ItemMismatch(items[i], RatMul(ItemFloat(items[i], "quantity"),
                                                   ItemFloat(items[i], "unit_price"))),
                  ItemMismatches(items, i + 1))

\* sum(float(item["total"]) for item in line_items)
RECURSIVE SumTotals(_)
SumTotals(items) ==
    IF items = <<>> THEN RatInt(0)
    ELSE FloatAdd(SumTotals(SubSeq(items, 1, Len(items) - 1)),
                  ItemFloat(items[Len(items)], "total"))

BusinessError == [kind |-> "Business rule validation error"]

ValidateBusinessRules(m) ==
    LET \* the values a `for ... in data.get("line_items", [])` yields, when it can
        \* start at all
        Iterates ==
            ~Has(m, "line_items") \/ m["line_items"].t = "list" \/
            (m["line_items"].t \in {"str", "obj"} /\ Falsy(m["line_items"]))
        SubtotalMismatch(sub, subtotal_expected) ==
            IF sub.v # subtotal_expected
            THEN <<[kind |-> "Subtotal mismatch", expected |-> subtotal_expected,
                    got |-> GetOrZero(m, "subtotal")]>>
            ELSE <<>>
        TotalMismatch(tot, total_expected) ==
            IF tot.v # total_expected
            THEN <<[kind |-> "Total mismatch", expected |-> total_expected,
                    got |-> GetOrZero(m, "total")]>>
            ELSE <<>>
        \* the checks after the loop, which appended errs; sub, tax and tot are the
        \* outcomes of float(data.get(k, 0))
        TotalsErrors(items, errs, sub, tax, tot) ==
            IF ~sub.ok THEN errs \o <<BusinessError>>
            ELSE IF ~tax.ok \/ ~tot.ok
                 THEN errs \o SubtotalMismatch(sub, SumTotals(items)) \o <<BusinessError>>
                 ELSE errs \o SubtotalMismatch(sub, SumTotals(items))
                           \o TotalMismatch(tot, FloatAdd(sub.v, tax.v))
        AfterLoop(items, loop) ==
            IF loop.raised THEN loop.errs \o <<BusinessError>>
            ELSE TotalsErrors(items, loop.errs, ToFloat(GetOrZero(m, "subtotal")),
                              ToFloat(GetOrZero(m, "tax")), ToFloat(GetOrZero(m, "total")))
    IN
    IF ~Iterates THEN <<BusinessError>>
    ELSE AfterLoop(ItemsOf(m), ItemMismatches(ItemsOf(m), 1))

(***************************************************************************)
(* ValidatorAgent.validate_custom_rules                                    *)
(***************************************************************************)
MaxTaxRate == [n |-> 1, d |-> 5]    \* the literal 0.2

INV == <<"I", "N", "V", "-">>

VendorErrors(m) ==
    IF ~Has(m, "vendor") \/ Falsy(m["vendor"])
    THEN <<[kind |-> "Vendor is missing or empty"]>>
    ELSE <<>>

\* flags a tax rate of exactly 20% too
TaxRateCheck_AtLimit(sub, tax) ==
    IF ~sub.ok \/ ~tax.ok THEN <<[kind |-> "Error calculating tax rate"]>>
    ELSE IF sub.v.n > 0 /\ ~FloatGt(MaxTaxRate, FloatDiv(tax.v, sub.v))
         THEN <<[kind |-> "Tax rate too high", rate |-> FloatDiv(tax.v, sub.v)]>>
         ELSE <<>>

\* looks at the rate whatever the sign of the subtotal
TaxRateCheck_AnySubtotal(sub, tax) ==
    IF ~sub.ok \/ ~tax.ok THEN <<[kind |-> "Error calculating tax rate"]>>
    ELSE IF sub.v.n # 0 /\ FloatGt(FloatDiv(tax.v, sub.v), MaxTaxRate)
         THEN <<[kind |-> "Tax rate too high", rate |-> FloatDiv(tax.v, sub.v)]>>
         ELSE <<>>

\* sub and tax are the outcomes of float(data.get(k, 0))
TaxRateCheck(sub, tax) ==
    IF ~sub.ok \/ ~tax.ok THEN <<[kind |-> "Error calculating tax rate"]>>
    ELSE IF sub.v.n > 0 /\ FloatGt(FloatDiv(tax.v, sub.v), MaxTaxRate)
         THEN <<[kind |-> "Tax rate too high", rate |-> FloatDiv(tax.v, sub.v)]>>
         ELSE <<>>

\* looks for the dash in fourth place only
InvoiceNumberErrors_DashOnly(m) ==
    LET invoice_number == IF Has(m, "invoice_number") THEN StrOf(m["invoice_number"])
                          ELSE <<>>
    IN  IF ~(Len(invoice_number) >= 4 /\ invoice_number[4] = "-")
        THEN <<[kind |-> "Invalid invoice number format", number |-> invoice_number]>>
        ELSE <<>>

InvoiceNumberErrors(m) ==
    LET invoice_number == IF Has(m, "invoice_number") THEN StrOf(m["invoice_number"])
                          ELSE <<>>
    IN  IF ~StartsWith(invoice_number, INV)
        THEN <<[kind |-> "Invalid invoice number format", number |-> invoice_number]>>
        ELSE <<>>

ValidateCustomRules(m) ==
    LET TaxRateErrors ==
            TaxRateCheck(ToFloat(GetOrZero(m, "subtotal")), ToFloat(GetOrZero(m, "tax")))
    IN
    VendorErrors(m) \o TaxRateErrors \o InvoiceNumberErrors(m)

(***************************************************************************)
(* ValidatorAgent.run_data                                                 *)
(***************************************************************************)
\* the result dict as first built
NewResult ==
    [status |-> "PASS", valid |-> TRUE,
     schema_errors |-> <<>>, date_errors |-> <<>>,
     business_errors |-> <<>>, custom_errors |-> <<>>,
     normalized_data |-> Null]

\* leaves normalized_data as first built
Started_Unset(normalized) == NewResult

\* result["normalized_data"] = normalized, before any check runs
Started(normalized) == [NewResult EXCEPT !.normalized_data = Obj(normalized)]

\* sets the status and leaves valid as it was
Fail_StatusOnly(r) == [r EXCEPT !.status = "FAIL"]

Fail(r) == [r EXCEPT !.status = "FAIL", !.valid = FALSE]

WithBusiness(r, business_errors) ==
    IF business_errors # <<>>
    THEN [Fail(r) EXCEPT !.business_errors = business_errors]
    ELSE r

\* records the custom findings only on a result the business check left clean
WithCustom_UnlessBusiness(r, custom_errors) ==
    IF custom_errors # <<>> /\ r.business_errors = <<>>
    THEN [Fail(r) EXCEPT !.custom_errors = custom_errors]
    ELSE r

WithCustom(r, custom_errors) ==
    IF custom_errors # <<>>
    THEN [Fail(r) EXCEPT !.custom_errors = custom_errors]
    ELSE r

\* returns after the business check when it found errors, as the schema and
\* date checks do
Accumulate_StopAfterBusiness(r, normalized) ==
    IF ValidateBusinessRules(normalized) # <<>>
    THEN WithBusiness(r, ValidateBusinessRules(normalized))
    ELSE WithCustom(r, ValidateCustomRules(normalized))

\* the business and the custom check, both always called
Accumulate(r, normalized) ==
    WithCustom(WithBusiness(r, ValidateBusinessRules(normalized)),
               ValidateCustomRules(normalized))

\* run_data(data) at local date `now`.  raised: the exception leaves run_data;
\* value: the dict returned; caller: data after the call; ran: the methods
\* run_data called, in call order.
RunData(d, now) ==
    LET \* what run_data returns: n is the outcome of normalize
        Returns(n, value, called) ==
            [raised |-> FALSE, exc |-> "none", value |-> value, caller |-> n.caller,
             ran |-> called]
        \* the checks in call order; r1 is the result dict holding normalized_data
        RunChecks(n, r1) ==
            IF ValidateSchema(n.value) # <<>>
            THEN Returns(n, [Fail(r1) EXCEPT !.schema_errors = ValidateSchema(n.value)],
                         <<"normalize", "schema">>)
            ELSE IF ValidateDates(n.value, now) # <<>>
            THEN Returns(n, [Fail(r1) EXCEPT !.date_errors = ValidateDates(n.value, now)],
                         <<"normalize", "schema", "date">>)
            ELSE Returns(n, Accumulate(r1, n.value),
                         <<"normalize", "schema", "date", "business", "custom">>)
        AfterNormalize(n) ==
            IF n.raised
            THEN [raised |-> TRUE, exc |-> n.exc, value |-> NewResult,
                  caller |-> n.caller, ran |-> <<"normalize">>]
            ELSE RunChecks(n, Started(n.value))
    IN  AfterNormalize(Normalize(d))

(***************************************************************************)
(* Inputs of run_data drawn by the model                                   *)
(***************************************************************************)
Absent == [t |-> "absent"]      \* marks a key left out of a mapping

GoodItem(q) ==
    LET Half(n) == Rat(n, 2)
    IN
    Obj([description |-> Str(<<"W">>), quantity |-> Num(RatInt(q)),
         unit_price |-> Num(Half(5)), total |-> Num(Half(5 * q))])

\* stored total 3, quantity * unit_price is 2.5
OffItem ==
    Obj([description |-> Str(<<"W">>), quantity |-> Num(RatInt(1)),
         unit_price |-> Str(<<"2", ".", "5">>), total |-> Num(RatInt(3))])

\* an amount with no exact double: 1 * 2.8 = 2.8
TenthsItem ==
    Obj([description |-> Str(<<"W">>), quantity |-> Num(RatInt(1)),
         unit_price |-> Num(Rat(14, 5)), total |-> Num(Rat(14, 5))])

\* numbers given as text: 2 * 1.50 = 3.0
TextItem ==
    Obj([description |-> Str(<<"W">>), quantity |-> Str(<<"2">>),
         unit_price |-> Str(<<" ", "1", ".", "5", "0">>),
         total |-> Str(<<"3", ".", "0">>)])

\* a quantity float() rejects
BadItem ==
    Obj([description |-> Str(<<"W">>), quantity |-> Str(<<"a", "b", "c">>),
         unit_price |-> Num(RatInt(1)), total |-> Num(RatInt(1))])

ItemPool ==
    LET NoQuantityItem ==
            Obj([description |-> Str(<<"W">>),
                 unit_price |-> Num(RatInt(1)), total |-> Num(RatInt(1))])
    IN
    {GoodItem(q) : q \in 1..MaxQty} \cup
    {OffItem, TextItem, TenthsItem, BadItem, NoQuantityItem, Num(RatInt(7)), Str(<<"W">>)}

\* lists of up to n items: any item of the pool, then items of the core pool
ItemLists(n) ==
    LET SeqsUpTo(S, len) == UNION {[1..k -> S] : k \in 0..len}
        \* the items drawn after the first one of a list
        CorePool == {GoodItem(1), OffItem, BadItem}
    IN
    {<<>>} \cup {<<x>> \o xs : x \in ItemPool, xs \in SeqsUpTo(CorePool, n - 1)}

LineItemsChoices ==
    {List(xs) : xs \in ItemLists(MaxItems)} \cup {Null, Absent}

\* sum of the stored totals that read as numbers
RECURSIVE StoredSum(_)
StoredSum(items) ==
    IF items = <<>> THEN RatInt(0)
    ELSE LET x == Head(items)
             t == IF x.t = "obj" /\ Has(x.f, "total") /\ ToFloat(x.f["total"]).ok
                  THEN ToFloat(x.f["total"]).v ELSE RatInt(0)
         IN  RatAdd(t, StoredSum(Tail(items)))

\* subtotal, tax and total to go with line_items li: consistent, off by one,
\* negative, unreadable or missing; tax at 0%, exactly 20% and 25% of the
\* subtotal, and a tax of 1 whatever the subtotal
BodiesOf(li) ==
    LET One == RatInt(1)
        sum == IF li.t = "list" THEN StoredSum(li.items) ELSE RatInt(0)
        subs == {Num(sum), Num(RatAdd(sum, One)), Num(RatInt(-1)), Str(<<"x">>), Absent}
        val(s) == IF s.t = "num" THEN s.v ELSE RatInt(0)
        taxes(s) == {Num(RatInt(0)), Num(RatMul(val(s), Rat(1, 5))),
                     Num(RatMul(val(s), Rat(1, 4))), Num(One)}
        tots(s, x) == {Num(RatAdd(val(s), x.v)),
                       Num(RatAdd(RatAdd(val(s), x.v), One)), Null}
    IN  UNION { UNION { { [line_items |-> li, subtotal |-> s, tax |-> x, total |-> t]
                          : t \in tots(s, x) } : x \in taxes(s) } : s \in subs }

Bodies == UNION {BodiesOf(li) : li \in LineItemsChoices}

INV1 == Str(INV \o <<"1">>)
ABC1 == Str(<<"A", "B", "C", "-", "1">>)

D17 == <<2025, 9, 17>>
D18 == <<2025, 9, 18>>
Todays == {D17, D18}

Headers ==
    LET DateChoices ==
            LET D19 == <<2025, 9, 19>>
            IN
            { Str(StrfDate(D17)),
              Str(Replace(StrfDate(D18), "-", "/")),
              Str(StrfDate(D19) \o <<"T", "1", "0", ":", "3", "0">>),
              Str(StrfDate(<<2025, 13, 1>>)),
              Str(<<>>),
              Null,
              Absent }
        VendorChoices == {Str(<<" ", " ", "A", "c", " ">>), Str(<<" ">>), Absent}
    IN
    { [invoice_number |-> i, date |-> d, vendor |-> v]
        : i \in {INV1, ABC1, Absent}, d \in DateChoices, v \in VendorChoices }

Record(h, b) ==
    LET \* the mapping with the given keys, leaving out those marked Absent
        Mapping(keys, f) == [k \in {x \in keys : f[x] # Absent} |-> f[k]]
    IN
    Mapping({"invoice_number", "date", "vendor", "line_items", "subtotal", "tax", "total"},
            [invoice_number |-> h.invoice_number, date |-> h.date, vendor |-> h.vendor,
             line_items |-> b.line_items, subtotal |-> b.subtotal, tax |-> b.tax,
             total |-> b.total])

\* headers and bodies each paired with every choice of the other for a few
\* fixed values: a clean one and one per kind of violation
FewHeaders ==
    LET GoodVendor == Str(<<" ", " ", "A", "c", " ">>)
    IN
    { [invoice_number |-> INV1, date |-> Str(StrfDate(D17)), vendor |-> GoodVendor],
      [invoice_number |-> ABC1, date |-> Str(StrfDate(D17)), vendor |-> GoodVendor],
      [invoice_number |-> INV1, date |-> Str(StrfDate(D17)), vendor |-> Absent],
      [invoice_number |-> INV1, date |-> Str(Replace(StrfDate(D18), "-", "/")),
       vendor |-> GoodVendor] }

FewBodies ==
    { b \in Bodies :
        /\ b.line_items.t = "list"
        /\ Len(b.line_items.items) = 1
        /\ b.line_items.items[1] \in {GoodItem(1), OffItem, TextItem, BadItem} }

Records ==
    {Record(h, b) : h \in Headers, b \in FewBodies} \cup
    {Record(h, b) : h \in FewHeaders, b \in Bodies}

(***************************************************************************)
(* Message envelopes (agents/coral_utils.py) and the shared reply header   *)
(***************************************************************************)
make_message(msg_type, sender, recipient, body, msg_id) ==
    [id |-> msg_id, type |-> msg_type, from |-> sender, to |-> recipient,
     body |-> body]

\* the `resp` every handle_coral starts from, with the body it ends up with
Reply(agent, envelope, body) ==
    [id |-> <<"resp", envelope.id>>, type |-> <<envelope.type, "response">>,
     from |-> agent, to |-> envelope.from, body |-> body]

Unsupported(intent) == [status |-> "FAIL", error |-> <<"unsupported intent", intent>>]

(***************************************************************************)
(* OCRAgent.handle_coral: the simulated text                               *)
(***************************************************************************)
simulated_text ==
    <<"I", "N", "V", "-", "1", "0", "0", "1", "\n", "D", "a", "t", "e",
      ":", " ", "2", "0", "2", "5", "-", "0", "9", "-", "1", "8", "\n",
      "V", "e", "n", "d", "o", "r", ":", " ", "A", "C", "M", "E", " ", "C",
      "o", "r", "p", "\n", "1", " ", "x", " ", "W", "i", "d", "g", "e",
      "t", " ", "@", " ", "5", "0", ".", "0", "0", " ", "=", " ", "5", "0",
      ".", "0", "0", "\n", "S", "u", "b", "t", "o", "t", "a", "l", ":",
      " ", "5", "0", ".", "0", "0", "\n", "T", "a", "x", ":", " ", "5",
      ".", "0", "0", "\n", "T", "o", "t", "a", "l", ":", " ", "5", "5",
      ".", "0", "0">>

\* reads nothing out of a file that is not a PDF
OcrHandle_PdfOnly(envelope) ==
    IF envelope.type = "ocr.extract"
    THEN Reply("ocr-agent", envelope,
               [invoice_text |-> IF envelope.body.file_info.filename = "scan.pdf"
                                 THEN simulated_text ELSE <<>>,
                source_file |-> envelope.body.file_info.filename])
    ELSE Reply("ocr-agent", envelope, Unsupported(envelope.type))

OcrHandle(envelope) ==
    IF envelope.type = "ocr.extract"
    THEN Reply("ocr-agent", envelope,
               [invoice_text |-> simulated_text,
                source_file |-> envelope.body.file_info.filename])
    ELSE Reply("ocr-agent", envelope, Unsupported(envelope.type))

(***************************************************************************)
(* ParserAgent._basic_parse: the regular expressions, as re.search runs    *)
(* them (leftmost match, greedy and lazy repetition, backtracking)         *)
(***************************************************************************)
NumChars == {"0", "1", "2", "3", "4", "5", "6", "7", "8", "9", ".", ","}
DigitChars == {"0", "1", "2", "3", "4", "5", "6", "7", "8", "9"}
LabelGap == Space \cup {":"}        \* [:\s]
\* the literal lit stands at position i of text
At(text, i, lit) ==
    i + Len(lit) - 1 <= Len(text) /\ SubSeq(text, i, i + Len(lit) - 1) = lit

\* first position from p on whose character is not in cls (Len + 1 if none)
RECURSIVE RunEnd(_, _, _)
RunEnd(text, p, cls) ==
    IF p <= Len(text) /\ text[p] \in cls THEN RunEnd(text, p + 1, cls) ELSE p

\* str.upper() / str.lower() on the ASCII letters
UpperCase == <<"A", "B", "C", "D", "E", "F", "G", "H", "I", "J", "K", "L", "M",
               "N", "O", "P", "Q", "R", "S", "T", "U", "V", "W", "X", "Y", "Z">>
LowerCase == <<"a", "b", "c", "d", "e", "f", "g", "h", "i", "j", "k", "l", "m",
               "n", "o", "p", "q", "r", "s", "t", "u", "v", "w", "x", "y", "z">>

Upper(s) ==
    [i \in 1..Len(s) |->
        IF \E j \in 1..26 : LowerCase[j] = s[i]
        THEN UpperCase[CHOOSE j \in 1..26 : LowerCase[j] = s[i]] ELSE s[i]]

Lower(s) ==
    [i \in 1..Len(s) |->
        IF \E j \in 1..26 : UpperCase[j] = s[i]
        THEN LowerCase[CHOOSE j \in 1..26 : UpperCase[j] = s[i]] ELSE s[i]]

Min(S) == CHOOSE x \in S : \A y \in S : x <= y

\* re.search(r"(INV[-\s]?\d+)", text, re.IGNORECASE): group 1 or no match
InvoiceNumberMatch(text) ==
    LET digitsFrom(i) ==
            IF i + 3 <= Len(text) /\ text[i + 3] \in Space \cup {"-"}
               /\ i + 4 <= Len(text) /\ text[i + 4] \in DigitChars
            THEN i + 4
            ELSE IF i + 3 <= Len(text) /\ text[i + 3] \in DigitChars THEN i + 3 ELSE 0
        starts == { i \in 1..Len(text) :
                      /\ i + 2 <= Len(text)
                      /\ Upper(SubSeq(text, i, i + 2)) = <<"I", "N", "V">>
                      /\ digitsFrom(i) # 0 }
    IN  IF starts = {} THEN [ok |-> FALSE, g |-> <<>>]
        ELSE LET i == Min(starts)
             IN  [ok |-> TRUE,
                  g |-> SubSeq(text, i, RunEnd(text, digitsFrom(i), DigitChars) - 1)]

\* re.search(r"Date[:\s]*([0-9]{4}[-/][0-9]{2}[-/][0-9]{2})", text)
DateMatch(text) ==
    LET from(i) == RunEnd(text, i + 4, LabelGap)
        shape(p) ==
            /\ p + 9 <= Len(text)
            /\ \A k \in {0, 1, 2, 3, 5, 6, 8, 9} : text[p + k] \in DigitChars
            /\ text[p + 4] \in {"-", "/"} /\ text[p + 7] \in {"-", "/"}
        starts == { i \in 1..Len(text) :
                      At(text, i, <<"D", "a", "t", "e">>) /\ shape(from(i)) }
    IN  IF starts = {} THEN [ok |-> FALSE, g |-> <<>>]
        ELSE LET p == from(Min(starts))
             IN  [ok |-> TRUE, g |-> SubSeq(text, p, p + 9)]

\* re.search(r"Vendor[:\s]*(.+)", text): the gap gives characters back until
\* a character other than a newline follows it
VendorMatch(text) ==
    LET lit == <<"V", "e", "n", "d", "o", "r">>
        \* where (.+) starts for the match beginning at i, or 0
        groupFrom(i) ==
            LET gaps == { p \in (i + 6)..RunEnd(text, i + 6, LabelGap) :
                            p <= Len(text) /\ text[p] # "\n" }
            IN  IF gaps = {} THEN 0 ELSE CHOOSE p \in gaps : \A q \in gaps : q <= p
        starts == { i \in 1..Len(text) : At(text, i, lit) /\ groupFrom(i) # 0 }
    IN  IF starts = {} THEN [ok |-> FALSE, g |-> <<>>]
        ELSE LET p == groupFrom(Min(starts))
             IN  [ok |-> TRUE, g |-> SubSeq(text, p, RunEnd(text, p, {c \in
                    {text[k] : k \in 1..Len(text)} : c # "\n"}) - 1)]

\* re.search(r"<Label>[:\s]*([\d.,]+)", text) for Subtotal, Tax and Total
LabelMatch(text, label) ==
    LET from(i) == RunEnd(text, i + Len(label), LabelGap)
        starts == { i \in 1..Len(text) :
                      /\ At(text, i, label)
                      /\ from(i) <= Len(text) /\ text[from(i)] \in NumChars }
    IN  IF starts = {} THEN [ok |-> FALSE, g |-> <<>>]
        ELSE LET p == from(Min(starts))
             IN  [ok |-> TRUE, g |-> SubSeq(text, p, RunEnd(text, p, NumChars) - 1)]

\* str.splitlines() on "\n", "\r\n" and "\r"
RECURSIVE SplitLines(_)
SplitLines(text) ==
    LET Newlines == {"\n", "\r"}
    IN
    IF text = <<>> THEN <<>>
    ELSE LET e == RunEnd(text, 1, {c \in {text[k] : k \in 1..Len(text)} :
                                       c \notin Newlines})
             next == IF e < Len(text) /\ text[e] = "\r" /\ text[e + 1] = "\n"
                     THEN e + 2 ELSE e + 1
         IN  <<SubSeq(text, 1, e - 1)>> \o SplitLines(SubSeq(text, next, Len(text)))

\* what follows the description: @\s*([\d.,]+)\s*=\s*([\d.,]+), from the @ at p
ItemTail(line, p) ==
    LET u1 == RunEnd(line, p + 1, Space)
        u2 == RunEnd(line, u1, NumChars)
        eq == RunEnd(line, u2, Space)
        t1 == RunEnd(line, eq + 1, Space)
        t2 == RunEnd(line, t1, NumChars)
    IN  [ok |-> /\ p <= Len(line) /\ line[p] = "@"
                /\ u2 > u1
                /\ eq <= Len(line) /\ line[eq] = "="
                /\ t2 > t1,
         unit |-> SubSeq(line, u1, u2 - 1),
         total |-> SubSeq(line, t1, t2 - 1)]

\* re.search(r"(\d+)\s*x\s*(.+?)@\s*([\d.,]+)\s*=\s*([\d.,]+)", line): the
\* leftmost start; after the x the widest gap first, then the shortest
\* description that lets the rest match
ItemMatch(line) ==
    LET QtyEnd(i) == RunEnd(line, i, DigitChars)
        XAt(i) == RunEnd(line, QtyEnd(i), Space)
        \* pairs <<d, a>>: description from d up to the @ at a
        Splits(i) ==
            { da \in ((XAt(i) + 1)..RunEnd(line, XAt(i) + 1, Space))
                        \X (1..Len(line)) :
                da[2] > da[1] /\ ItemTail(line, da[2]).ok }
        Matches(i) ==
            /\ line[i] \in DigitChars
            /\ XAt(i) <= Len(line) /\ line[XAt(i)] = "x"
            /\ Splits(i) # {}
        \* the groups of the match that starts at i, its description running from d
        \* up to the @ at a
        ItemGroups(i, d, a) ==
            [ok |-> TRUE,
             qty |-> SubSeq(line, i, QtyEnd(i) - 1),
             desc |-> SubSeq(line, d, a - 1),
             unit |-> ItemTail(line, a).unit,
             total |-> ItemTail(line, a).total]
        ItemDesc(i, d, sp) ==
            ItemGroups(i, d, Min({da[2] : da \in {x \in sp : x[1] = d}}))
        ItemSplit(i, sp) ==
            ItemDesc(i, CHOOSE d \in {da[1] : da \in sp} :
                                  \A e \in {da[1] : da \in sp} : e <= d, sp)
        ItemFrom(starts) ==
            IF starts = {} THEN [ok |-> FALSE]
            ELSE ItemSplit(Min(starts), Splits(Min(starts)))
    IN  ItemFrom({ i \in 1..Len(line) : Matches(i) })

\* float(group.replace(",", ""))
Amount(g) ==
    LET \* str.replace(old, "") for a one-character old
        Remove(s, old) == SelectSeq(s, LAMBDA c : c # old)
    IN  ParseFloat(Remove(g, ","))

\* the dict appended for the match m
ParsedItem(m) ==
    Obj([description |-> Str(Strip(m.desc)),
         quantity |-> Num(ParseFloat(m.qty).v),
         unit_price |-> Num(Amount(m.unit).v),
         total |-> Num(Amount(m.total).v)])

\* puts each item in front of those found before it: line_items.insert(0, ...)
RECURSIVE ParseItems_NewestFirst(_)
ParseItems_NewestFirst(lines) ==
    LET ItemsFrom(m, rest) ==
            IF ~m.ok THEN rest
            ELSE IF ~Amount(m.unit).ok \/ ~Amount(m.total).ok
                 THEN [raised |-> TRUE, items |-> <<>>]
                 ELSE [raised |-> rest.raised, items |-> rest.items \o <<ParsedItem(m)>>]
    IN
    IF lines = <<>> THEN [raised |-> FALSE, items |-> <<>>]
    ELSE ItemsFrom(ItemMatch(Head(lines)), ParseItems_NewestFirst(Tail(lines)))

\* the loop over text.splitlines(); [raised, items]
RECURSIVE ParseItems(_)
ParseItems(lines) ==
    LET \* m: the match on the first line; rest: the outcome for the lines after it
        ItemsFrom(m, rest) ==
            IF ~m.ok THEN rest
            ELSE IF ~Amount(m.unit).ok \/ ~Amount(m.total).ok
                 THEN [raised |-> TRUE, items |-> <<>>]
                 ELSE [raised |-> rest.raised, items |-> <<ParsedItem(m)>> \o rest.items]
    IN
    IF lines = <<>> THEN [raised |-> FALSE, items |-> <<>>]
    ELSE ItemsFrom(ItemMatch(Head(lines)), ParseItems(Tail(lines)))

\* takes the last item's total for the sum
SumItemTotals_LastOnly(items) ==
    IF items = <<>> THEN RatInt(0) ELSE items[Len(items)].f["total"].v

\* sum(i["total"] for i in line_items)
RECURSIVE SumItemTotals(_)
SumItemTotals(items) ==
    IF items = <<>> THEN RatInt(0)
    ELSE FloatAdd(SumItemTotals(SubSeq(items, 1, Len(items) - 1)),
                  items[Len(items)].f["total"].v)

\* _basic_parse(text): raised when a float() of a matched amount fails
BasicParse(text) ==
    LET FallbackItem ==
            Obj([description |-> Str(<<"S", "e", "r", "v", "i", "c", "e">>),
                 quantity |-> Num(RatInt(1)),
                 unit_price |-> Num(RatInt(50)), total |-> Num(RatInt(50))])
        \* round(x, 2), ties to even
        Round2(x) ==
            LET scaled == 100 * x.n
                q == scaled \div x.d
                twice == 2 * (scaled % x.d)
                up == twice > x.d \/ (twice = x.d /\ q % 2 = 1)
            IN  Rat(IF up THEN q + 1 ELSE q, 100)
        \* the dict _basic_parse returns
        ParsedInvoice(num, date, vendor, line_items, subtotal, taxv, total) ==
            [raised |-> FALSE,
             invoice |->
               [invoice_number |-> Str(IF num.ok THEN Upper(num.g)
                                       ELSE INV \o <<"U", "N", "K", "N", "O", "W", "N">>),
                date |-> Str(IF date.ok THEN date.g ELSE StrfDate(<<1970, 1, 1>>)),
                vendor |-> Str(IF vendor.ok THEN Strip(vendor.g)
                               ELSE <<"U", "n", "k", "n", "o", "w", "n", " ",
                                      "V", "e", "n", "d", "o", "r">>),
                line_items |-> List(line_items),
                subtotal |-> Num(subtotal),
                tax |-> Num(taxv),
                total |-> Num(total)]]
        \* total: the matched amount, or subtotal + tax
        WithTotal(num, date, vendor, line_items, subtotal, taxv, tot) ==
            ParsedInvoice(num, date, vendor, line_items, subtotal, taxv,
                          IF tot.ok THEN Amount(tot.g).v ELSE FloatAdd(subtotal, taxv))
        \* tax: the matched amount, or round(subtotal * 0.1, 2)
        WithTax(num, date, vendor, line_items, subtotal, tax, tot) ==
            WithTotal(num, date, vendor, line_items, subtotal,
                      IF tax.ok THEN Amount(tax.g).v
                      ELSE Round2(RatMul(subtotal, Rat(1, 10))), tot)
        \* subtotal: the matched amount, or the sum of the items' totals
        WithSubtotal(num, date, vendor, line_items, sub, tax, tot) ==
            WithTax(num, date, vendor, line_items,
                    IF sub.ok THEN Amount(sub.g).v ELSE SumItemTotals(line_items), tax, tot)
        \* found: the outcome of the loop over the lines; sub, tax, tot: the matches
        \* of the three labels
        ParseTotals(found, sub, tax, tot) ==
            IF \/ found.raised
               \/ sub.ok /\ ~Amount(sub.g).ok
               \/ tax.ok /\ ~Amount(tax.g).ok
               \/ tot.ok /\ ~Amount(tot.g).ok
            THEN [raised |-> TRUE, invoice |-> NoMapping]
            ELSE WithSubtotal(InvoiceNumberMatch(text), DateMatch(text), VendorMatch(text),
                              IF found.items = <<>> THEN <<FallbackItem>> ELSE found.items,
                              sub, tax, tot)
    IN
    ParseTotals(ParseItems(SplitLines(text)),
                LabelMatch(text, <<"S", "u", "b", "t", "o", "t", "a", "l">>),
                LabelMatch(text, <<"T", "a", "x">>),
                LabelMatch(text, <<"T", "o", "t", "a", "l">>))

ParserHandle(envelope) ==
    LET ParserReply(p) ==
            [raised |-> p.raised,
             resp |-> Reply("parser-agent", envelope, [invoice |-> p.invoice])]
    IN
    IF envelope.type = "parser.parse_text"
    THEN ParserReply(BasicParse(envelope.body.invoice_text))
    ELSE [raised |-> FALSE,
          resp |-> Reply("parser-agent", envelope, Unsupported(envelope.type))]

(***************************************************************************)
(* ValidatorAgent.handle_coral and ExporterAgent.handle_coral              *)
(***************************************************************************)
\* `not invoice` for a mapping taken with body.get("invoice")
NoInvoice(body) == ~Has(body, "invoice") \/ DOMAIN body["invoice"] = {}

MissingPayload == [status |-> "FAIL", error |-> "Missing invoice payload"]

\* raised: run_data's exception leaves handle_coral
ValidatorHandle(envelope, now) ==
    LET ValidatorReply(r) ==
            [raised |-> r.raised, resp |-> Reply("validator-agent", envelope, r.value)]
    IN
    IF envelope.type # "validate.invoice"
    THEN [raised |-> FALSE,
          resp |-> Reply("validator-agent", envelope, Unsupported(envelope.type))]
    ELSE IF NoInvoice(envelope.body)
    THEN [raised |-> FALSE, resp |-> Reply("validator-agent", envelope, MissingPayload)]
    ELSE ValidatorReply(RunData(envelope.body["invoice"], now))

Csv == <<"c", "s", "v">>
Xlsx == <<"x", "l", "s", "x">>
XlsxNames == {<<"x", "l", "s">>, Xlsx, <<"e", "x", "c", "e", "l">>}
SheetNames == {<<"g", "s", "h", "e", "e", "t", "s">>, <<"s", "h", "e", "e", "t", "s">>,
               <<"s", "h", "e", "e", "t">>}

\* (body.get("format") or "csv").lower()
FormatOf(body) ==
    IF Has(body, "format") /\ body["format"] # <<>> THEN Lower(body["format"]) ELSE Csv

\* invoice.get("invoice_number") or f"invoice_{invoice_id or 'unknown'}",
\* with blanks replaced by "_"
ExportFileName(body) ==
    LET invoice == body["invoice"]
        named == Has(invoice, "invoice_number") /\ ~Falsy(invoice["invoice_number"])
        fallback == IF Has(body, "invoice_id") /\ body["invoice_id"] # 0
                    THEN <<"i", "n", "v", "o", "i", "c", "e", "_">>
                            \o Decimal(body["invoice_id"])
                    ELSE <<"i", "n", "v", "o", "i", "c", "e", "_",
                           "u", "n", "k", "n", "o", "w", "n">>
    IN  Replace(IF named THEN invoice["invoice_number"].s ELSE fallback, " ", "_")

\* handle_coral of the exporter built with export_dir dir; gc: the sheet
\* client is configured; writes: the file or sheet writer does not raise.
\* raised: a truthy invoice_number that is not a str has no replace()
ExporterHandle(envelope, dir, gc, writes) ==
    LET body == envelope.body
        answer(b) == [raised |-> FALSE, resp |-> Reply("exporter-agent", envelope, b)]
    IN  IF envelope.type # "export.invoice" THEN answer(Unsupported(envelope.type))
        ELSE IF NoInvoice(body) THEN answer(MissingPayload)
        ELSE IF /\ Has(body["invoice"], "invoice_number")
                /\ ~Falsy(body["invoice"]["invoice_number"])
                /\ body["invoice"]["invoice_number"].t # "str"
        THEN [raised |-> TRUE, resp |-> Reply("exporter-agent", envelope, NoMapping)]
        ELSE
        LET fmt == FormatOf(body)
            filename == ExportFileName(body)
        IN  CASE fmt = Csv ->
                    IF writes
                    THEN answer([status |-> "PASS",
                                 file |-> [dir |-> dir, name |-> filename \o <<".">> \o Csv],
                                 format |-> Csv])
                    ELSE answer([status |-> "FAIL", error |-> "OSError"])
              [] fmt \in XlsxNames ->
                    IF writes
                    THEN answer([status |-> "PASS",
                                 file |-> [dir |-> dir, name |-> filename \o <<".">> \o Xlsx],
                                 format |-> Xlsx])
                    ELSE answer([status |-> "FAIL", error |-> "OSError"])
              [] fmt \in SheetNames ->
                    IF ~gc
                    THEN answer([status |-> "FAIL",
                                 error |-> "Google Sheets not configured"])
                    ELSE IF writes
                    THEN answer([status |-> "PASS",
                                 file |-> [dir |-> "sheets", name |-> filename],
                                 format |-> <<"g", "s", "h", "e", "e", "t", "s">>])
                    ELSE answer([status |-> "FAIL", error |-> "APIError"])
              [] OTHER ->
                    answer([status |-> "FAIL", error |-> <<"Unsupported format", fmt>>])

(***************************************************************************)
(* State machine.  A call of run_data is one step: the validator is        *)
(* synchronous and keeps no state between calls.                           *)
(***************************************************************************)
NoRequest == [endpoint |-> "none"]

NoResponse == [code |-> 0]

\* the gateway at start-up, before any request
GatewayIdle ==
    /\ req = NoRequest
    /\ pc = "idle"
    /\ calls = <<>>
    /\ invoices = <<>>
    /\ exports = <<>>
    /\ response = NoResponse
    /\ served = 0

\* a caller holding a mapping d, about to call run_data
InitValidator ==
    /\ today \in Todays
    /\ arg \in Records
    /\ data = arg
    /\ outcome = "none"
    /\ result = NewResult
    /\ ran = <<>>
    /\ gcReady = FALSE
    /\ GatewayIdle

\* validator.run_data(data)
RunDataCall ==
    LET \* the caller's state once run_data ended with r
        RunDataEnds(r) ==
            /\ data' = r.caller
            /\ outcome' = IF r.raised THEN "raised" ELSE "returned"
            /\ result' = r.value
            /\ ran' = r.ran
    IN
    /\ outcome = "none"
    /\ RunDataEnds(RunData(arg, today))
    /\ UNCHANGED <<today, arg, gwVars>>

ValidatorNext == RunDataCall

SpecValidator == InitValidator /\ [][ValidatorNext]_vars

(***************************************************************************)
(* Vocabulary of the validator's properties, stated on the caller's input  *)
(***************************************************************************)
Returned == outcome = "returned"

\* the record validates against the schema as the caller built it
SchemaValid(d) == ValidateSchema(d) = <<>>

\* every quantity, unit_price, total, subtotal and tax reads as a number
Coercible(d) ==
    /\ \A i \in 1..Len(ItemsOf(d)) :
          \A j \in 1..3 : ItemFloatOk(ItemsOf(d)[i], NumericFields[j])
    /\ \A j \in 1..3 : Has(d, TotalFields[j]) /\ ToFloat(d[TotalFields[j]]).ok

\* indices (from 1) of the line items whose total is not quantity * unit_price
OffItems(d) ==
    { i \in 1..Len(ItemsOf(d)) :
        ItemFloat(ItemsOf(d)[i], "total") #
            RatMul(ItemFloat(ItemsOf(d)[i], "quantity"),
                   ItemFloat(ItemsOf(d)[i], "unit_price")) }

\* equalities and the quotient are those of doubles, as the record's amounts
\* are floating-point numbers: 5.3 + 1.06 is not 6.36, and 0.56 / 2.8 is
\* above 0.2
SubtotalConsistent(d) == ToFloat(d["subtotal"]).v = SumTotals(ItemsOf(d))

TotalConsistent(d) ==
    ToFloat(d["total"]).v = FloatAdd(ToFloat(d["subtotal"]).v, ToFloat(d["tax"]).v)

\* well-formed, and the three arithmetic relations hold
ArithConsistent(d) ==
    /\ SchemaValid(d) /\ Coercible(d)
    /\ OffItems(d) = {}
    /\ SubtotalConsistent(d)
    /\ TotalConsistent(d)

DateOf(d) == FromIsoFormat(Replace(d["date"].s, "/", "-"))

FutureDated(d, now) == DateOf(d).ok /\ DateGt(DateOf(d).date, now)

DateAcceptable(d, now) == DateOf(d).ok /\ ~DateGt(DateOf(d).date, now)

VendorGiven(d) == Strip(d["vendor"].s) # <<>>

NumberPrefixed(d) == StartsWith(d["invoice_number"].s, INV)

TaxWithinLimit(d) ==
    LET sub == ToFloat(d["subtotal"]).v
        tax == ToFloat(d["tax"]).v
    IN  sub.n > 0 => ~FloatGt(FloatDiv(tax, sub), MaxTaxRate)

NoErrors(r) ==
    /\ r.schema_errors = <<>> /\ r.date_errors = <<>>
    /\ r.business_errors = <<>> /\ r.custom_errors = <<>>

Passed(r) == r.status = "PASS" /\ r.valid /\ NoErrors(r)

\* the call got past the schema and the date check
PastDateCheck == Returned /\ result.schema_errors = <<>> /\ result.date_errors = <<>>

Kinds(errs) == {errs[i].kind : i \in 1..Len(errs)}

(***************************************************************************)
(* C1                                                                      *)
(***************************************************************************)
\* C1 as stated: every well-formed record whose line-item totals, subtotal and
\* total are arithmetically consistent validates to PASS, valid, with all four
\* error lists empty.
C1_ConsistentPasses ==
    (outcome # "none" /\ ArithConsistent(arg)) => (Returned /\ Passed(result))

\* C1 amended: ... and whose date parses and is not after today, whose vendor
\* is not blank, whose invoice number starts with "INV-" and whose tax is at
\* most 20% of a positive subtotal, validates to PASS with all lists empty.
C1_ConsistentAndCleanPasses ==
    (/\ outcome # "none"
     /\ ArithConsistent(arg)
     /\ DateAcceptable(arg, today)
     /\ VendorGiven(arg)
     /\ NumberPrefixed(arg)
     /\ TaxWithinLimit(arg))
    => (Returned /\ Passed(result))

C1_Witness ==
    /\ Returned
    /\ ArithConsistent(arg) /\ DateAcceptable(arg, today) /\ VendorGiven(arg)
    /\ NumberPrefixed(arg) /\ TaxWithinLimit(arg)
    /\ Len(ItemsOf(arg)) = 2 /\ ItemsOf(arg)[1] = TextItem
    /\ ToFloat(arg["tax"]).v.n > 0
    /\ Passed(result)

(***************************************************************************)
(* C2                                                                      *)
(***************************************************************************)
\* C2: run_data never raises; a call on a record whose numeric fields cannot
\* be coerced, or whose line_items is not a list of mappings, returns a
\* result that reports the problem in one of its error lists.
C2_NeverRaises ==
    outcome # "none" =>
        /\ Returned
        /\ (~Coercible(arg) \/ ~SchemaValid(arg)) => ~NoErrors(result)

(***************************************************************************)
(* C3                                                                      *)
(***************************************************************************)
\* a required top-level field or a required field of a line item is missing
MissingRequired(d) ==
    \/ \E i \in 1..7 : ~Has(d, RequiredTop[i])
    \/ \E i \in 1..Len(ItemsOf(d)) :
          /\ ItemsOf(d)[i].t = "obj"
          /\ \E j \in 1..4 : ~Has(ItemsOf(d)[i].f, RequiredItem[j])

SchemaFailure ==
    /\ Returned
    /\ result.status = "FAIL"
    /\ result.schema_errors # <<>>
    /\ result.date_errors = <<>>
    /\ result.business_errors = <<>>
    /\ result.custom_errors = <<>>
    /\ ran = <<"normalize", "schema">>

\* C3: for every record missing a required field run_data returns FAIL with
\* schema errors only, and the date, business and custom checks are not run.
C3_MissingFieldFailsSchema ==
    (outcome # "none" /\ MissingRequired(arg)) => SchemaFailure

(***************************************************************************)
(* C4                                                                      *)
(***************************************************************************)
DateFailure ==
    /\ Returned
    /\ result.status = "FAIL"
    /\ "is in the future" \in Kinds(result.date_errors)
    /\ result.business_errors = <<>>
    /\ result.custom_errors = <<>>

\* C4: for every schema-valid record dated after today run_data returns FAIL
\* with a date error and empty business and custom errors, whatever else is
\* wrong with the record.
C4_FutureDateFails ==
    (outcome # "none" /\ SchemaValid(arg) /\ FutureDated(arg, today)) => DateFailure

(***************************************************************************)
(* C5                                                                      *)
(***************************************************************************)
\* the record passed the schema and date checks and exactly one of its line
\* items has a stored total different from quantity * unit_price
OneItemOff == PastDateCheck /\ Cardinality(OffItems(arg)) = 1

TheOffItem == CHOOSE i \in OffItems(arg) : TRUE

ItemMismatchEntries ==
    { j \in 1..Len(result.business_errors) :
        result.business_errors[j].kind = "Line item total mismatch" }

\* the custom-rule check ran after the business check and its findings are
\* what the result carries
CustomCheckRan ==
    /\ ran = <<"normalize", "schema", "date", "business", "custom">>
    /\ result.custom_errors = ValidateCustomRules(result.normalized_data.f)

\* C5 as stated: one line item off gives FAIL with exactly one message in
\* business_errors, the mismatch of that item, and the custom check still runs.
C5_OneMismatchOneMessage ==
    OneItemOff =>
        /\ result.status = "FAIL"
        /\ Len(result.business_errors) = 1
        /\ ItemMismatchEntries = {1}
        /\ CustomCheckRan

\* C5 amended: one line item off gives FAIL with exactly one line-item
\* mismatch message in business_errors, naming that item, the expected total
\* quantity * unit_price and the stored total; business_errors holds nothing
\* else exactly when the subtotal is the sum of the stored item totals and the
\* total is subtotal + tax; the custom check still runs.
C5_OneMismatchOneItemMessage ==
    OneItemOff =>
        /\ result.status = "FAIL"
        /\ Cardinality(ItemMismatchEntries) = 1
        /\ LET e == result.business_errors[1]
               item == ItemsOf(arg)[TheOffItem]
           IN  /\ e.kind = "Line item total mismatch"
               /\ e.index = TheOffItem - 1
               /\ e.expected = RatMul(ItemFloat(item, "quantity"),
                                      ItemFloat(item, "unit_price"))
               /\ e.got = Num(ItemFloat(item, "total"))
        /\ Len(result.business_errors) = 1
              <=> (SubtotalConsistent(arg) /\ TotalConsistent(arg))
        /\ CustomCheckRan

C5_Witness ==
    /\ OneItemOff
    /\ Len(ItemsOf(arg)) = 2 /\ TheOffItem = 2
    /\ Len(result.business_errors) = 1
    /\ result.custom_errors # <<>>

(***************************************************************************)
(* C6                                                                      *)
(***************************************************************************)
\* C6: a record past the schema and date checks whose invoice number does not
\* start with "INV-" fails with an "Invalid invoice number format" entry in
\* custom_errors, also when business_errors is empty.
C6_BadNumberFailsCustom ==
    (PastDateCheck /\ ~NumberPrefixed(arg)) =>
        /\ result.status = "FAIL"
        /\ ~result.valid
        /\ \E j \in 1..Len(result.custom_errors) :
              /\ result.custom_errors[j].kind = "Invalid invoice number format"
              /\ result.custom_errors[j].number = arg["invoice_number"].s

C6_Witness ==
    /\ PastDateCheck
    /\ arg["invoice_number"] = ABC1
    /\ ArithConsistent(arg) /\ ItemsOf(arg) # <<>>
    /\ result.business_errors = <<>>
    /\ Kinds(result.custom_errors) = {"Invalid invoice number format"}

(***************************************************************************)
(* C7                                                                      *)
(***************************************************************************)
\* C7: every result run_data returns carries the post-normalization record in
\* normalized_data, never null, whether it is a PASS or a FAIL of any kind.
C7_NormalizedDataAlwaysSet ==
    Returned =>
        /\ result.normalized_data # Null
        /\ result.normalized_data = Obj(Normalize(arg).value)

\* a schema failure whose result still carries the normalized record
C7_Witness ==
    /\ Returned
    /\ result.schema_errors # <<>>
    /\ result.normalized_data.t = "obj"
    /\ Has(result.normalized_data.f, "vendor")
    /\ result.normalized_data.f["vendor"] # arg["vendor"]

(***************************************************************************)
(* C8                                                                      *)
(***************************************************************************)
\* C8: normalize is idempotent: applied to the record a successful normalize
\* returned, it succeeds and returns that record unchanged.
C8_NormalizeIdempotent ==
    Returned =>
        LET once == result.normalized_data.f
            twice == Normalize(once)
        IN  ~twice.raised /\ twice.value = once

\* a call whose normalization changed the date, the vendor and a line item
C8_Witness ==
    /\ Returned
    /\ LET once == result.normalized_data.f
       IN  /\ Has(arg, "date") /\ Has(arg, "vendor") /\ Has(arg, "line_items")
           /\ once["date"] # arg["date"]
           /\ once["vendor"] # arg["vendor"]
           /\ once["line_items"] # arg["line_items"]
           /\ Len(once["line_items"].items) >= 1

(***************************************************************************)
(* The upload endpoints: api/gateway.py process_invoice and                *)
(* api/invoice_routes.py upload_invoice.  A request runs to completion     *)
(* before the next starts; each stage call is one step.                    *)
(***************************************************************************)
Endpoints == {"process_invoice", "upload_invoice"}
Users == {1, 2}
FileNames == {"scan.pdf", "notes.txt"}
\* who uploads what: each user sends a file of their own
Uploads == {<<1, "scan.pdf">>, <<2, "notes.txt">>}
ExportFormats == {Csv, <<"X", "L", "S", "X">>, <<"g", "s", "h", "e", "e", "t", "s">>,
                  <<"p", "d", "f">>}

\* the handler's local variables
Frame(endpoint, fmt, user, file) ==
    [endpoint |-> endpoint, export_format |-> fmt, user |-> user, filename |-> file,
     saved_path |-> IF endpoint = "process_invoice"
                    THEN [dir |-> "input", user |-> user, name |-> file]
                    ELSE [dir |-> "input", user |-> 0, name |-> file],
     invoice_text |-> <<>>, invoice |-> NoMapping, val_body |-> NoMapping,
     normalized |-> NoMapping, inv_id |-> 0, export_body |-> NoMapping,
     rows_before |-> Len(invoices)]

Sender == IF req.endpoint = "process_invoice" THEN "api-gateway" ELSE "invoice-endpoint"

\* body.get(k)
Get(body, k, default) == IF Has(body, k) THEN body[k] ELSE default

Respond(code, body) ==
    /\ response' = [code |-> code, body |-> body]
    /\ pc' = "done"

StartRequest ==
    /\ pc \in {"idle", "done"}
    /\ served < MaxRequests
    /\ \E e \in Endpoints, f \in ExportFormats, up \in Uploads :
          req' = Frame(e, f, up[1], up[2])
    /\ pc' = "save"
    /\ calls' = <<>>
    /\ response' = NoResponse
    /\ served' = served + 1
    /\ UNCHANGED <<today, valVars, gcReady, invoices, exports>>

\* save_upload_file; upload_invoice turns a failure into a 500, in
\* process_invoice the exception reaches the framework, which answers 500
SaveUpload ==
    /\ pc = "save"
    /\ \E saved \in BOOLEAN :
          IF saved THEN pc' = "ocr" /\ UNCHANGED response
          ELSE Respond(500, [detail |-> "Failed to save file"])
    /\ UNCHANGED <<today, valVars, gcReady, req, calls, invoices, exports, served>>

OcrStage ==
    /\ pc = "ocr"
    /\ calls' = Append(calls, "ocr")
    /\ LET msg == make_message("ocr.extract", Sender, "ocr-agent",
                               [file_info |-> [filename |-> req.filename,
                                               path |-> req.saved_path]],
                               Len(calls) + 1)
           invoice_text == Get(OcrHandle(msg).body, "invoice_text", <<>>)
       IN  IF invoice_text = <<>>
           THEN /\ Respond(400, [detail |-> IF req.endpoint = "process_invoice"
                                            THEN "OCR failed"
                                            ELSE "OCR extraction failed"])
                /\ UNCHANGED req
           ELSE /\ req' = [req EXCEPT !.invoice_text = invoice_text]
                /\ pc' = "parse"
                /\ UNCHANGED response
    /\ UNCHANGED <<today, valVars, gcReady, invoices, exports, served>>

ParseStage ==
    LET \* the handler after the parser answered r with the mapping `invoice`
        Parsed(r, invoice) ==
            IF r.raised
            THEN Respond(500, [detail |-> "Internal Server Error"]) /\ UNCHANGED req
            ELSE IF DOMAIN invoice = {}
            THEN Respond(400, [detail |-> "Parsing failed"]) /\ UNCHANGED req
            ELSE /\ req' = [req EXCEPT !.invoice = invoice]
                 /\ pc' = "validate"
                 /\ UNCHANGED response
        ParserAnswers(r) == Parsed(r, Get(r.resp.body, "invoice", NoMapping))
    IN
    /\ pc = "parse"
    /\ calls' = Append(calls, "parse")
    /\ ParserAnswers(ParserHandle(
            make_message("parser.parse_text", Sender, "parser-agent",
                         [invoice_text |-> req.invoice_text], Len(calls) + 1)))
    /\ UNCHANGED <<today, valVars, gcReady, invoices, exports, served>>

\* turns away only what the schema check refused
Rejected_SchemaOnly(val_body) == Get(val_body, "schema_errors", <<>>) # <<>>

\* gateway.py line 128
Rejected(val_body) ==
    Get(val_body, "status", "") # "PASS" \/ ~Get(val_body, "valid", FALSE)

\* invoice_routes.py line 93
UploadRejected(val_body) == Get(val_body, "status", "") # "PASS"

\* val_body.get("normalized_data") or invoice
NormalizedOr(val_body, invoice) ==
    LET n == Get(val_body, "normalized_data", Null)
    IN  IF Falsy(n) THEN invoice ELSE n.f

ValidateStage ==
    LET \* the handler after the validator answered with val_body
        Validated(raised, val_body) ==
            IF raised
            THEN Respond(500, [detail |-> "Internal Server Error"]) /\ UNCHANGED req
            ELSE IF req.endpoint = "process_invoice"
            THEN IF Rejected(val_body)
                 THEN /\ Respond(400, [status |-> "FAIL", validation |-> val_body])
                      /\ req' = [req EXCEPT !.val_body = val_body]
                 ELSE /\ req' = [req EXCEPT !.val_body = val_body,
                                            !.normalized = NormalizedOr(val_body, req.invoice)]
                      /\ pc' = "persist"
                      /\ UNCHANGED response
            ELSE IF UploadRejected(val_body)
                 THEN /\ Respond(400, [detail |-> "Validation failed"])
                      /\ req' = [req EXCEPT !.val_body = val_body]
                 ELSE /\ req' = [req EXCEPT !.val_body = val_body,
                                            !.normalized = NormalizedOr(val_body, req.invoice)]
                      /\ pc' = "export"
                      /\ UNCHANGED response
        ValidatorAnswers(r) == Validated(r.raised, r.resp.body)
    IN
    /\ pc = "validate"
    /\ calls' = Append(calls, "validate")
    /\ ValidatorAnswers(ValidatorHandle(
            make_message("validate.invoice", Sender, "validator-agent",
                         [invoice |-> req.invoice], Len(calls) + 1), today))
    /\ UNCHANGED <<today, valVars, gcReady, invoices, exports, served>>

\* models.Invoice(...) of process_invoice; normalized_json holds the record
\* json.dumps serializes
InvoiceRow(id) ==
    [id |-> id, table |-> "models.Invoice", user_id |-> req.user,
     invoice_number |-> Get(req.normalized, "invoice_number", Null),
     vendor |-> Get(req.normalized, "vendor", Null),
     date |-> Get(req.normalized, "date", Null),
     raw_file |-> req.saved_path,
     normalized_json |-> req.normalized]

\* process_invoice lines 134-149: add, commit, refresh, or rollback and 500
PersistInvoice ==
    /\ pc = "persist"
    /\ calls' = Append(calls, "persist")
    /\ \E committed \in BOOLEAN :
          IF committed
          THEN /\ invoices' = Append(invoices, InvoiceRow(Len(invoices) + 1))
               /\ req' = [req EXCEPT !.inv_id = Len(invoices) + 1]
               /\ pc' = "export"
               /\ UNCHANGED response
          ELSE /\ Respond(500, [detail |-> "DB error"])
               /\ UNCHANGED <<invoices, req>>
    /\ UNCHANGED <<today, valVars, gcReady, exports, served>>

\* the body of the export.invoice message each endpoint builds
ExportRequest ==
    IF req.endpoint = "process_invoice"
    THEN [invoice |-> req.normalized,
          format |-> Lower(IF req.export_format = <<>> THEN Csv ELSE req.export_format),
          invoice_id |-> req.inv_id]
    ELSE [invoice |-> req.normalized, format |-> Lower(req.export_format)]

ExportStage ==
    LET \* the handler after the exporter answered r
        Exported(r) ==
            IF r.raised
            THEN Respond(500, [detail |-> "Internal Server Error"]) /\ UNCHANGED req
            ELSE /\ req' = [req EXCEPT !.export_body = r.resp.body]
                 /\ pc' = IF req.endpoint = "process_invoice" THEN "record"
                          ELSE "persist_upload"
                 /\ UNCHANGED response
    IN
    /\ pc = "export"
    /\ calls' = Append(calls, "export")
    /\ \E writes \in BOOLEAN :
          Exported(ExporterHandle(
              make_message("export.invoice", Sender, "exporter-agent",
                           ExportRequest, Len(calls) + 1),
              "output", gcReady, writes))
    /\ UNCHANGED <<today, valVars, gcReady, invoices, exports, served>>

\* points at the invoice row with the export row's own id
ExportRow_OwnId(id) ==
    [id |-> id, invoice_id |-> id,
     export_format |-> Get(req.export_body, "format", req.export_format),
     export_path |-> Get(req.export_body, "file", Null)]

ExportRow(id) ==
    [id |-> id, invoice_id |-> req.inv_id,
     export_format |-> Get(req.export_body, "format", req.export_format),
     export_path |-> Get(req.export_body, "file", Null)]

\* process_invoice lines 161-176: the Export row is best effort
RecordExport ==
    /\ pc = "record"
    /\ IF Get(req.export_body, "status", "") = "PASS"
       THEN /\ \E committed \in BOOLEAN :
                  IF committed
                  THEN exports' = Append(exports, ExportRow(Len(exports) + 1))
                  ELSE UNCHANGED exports
            /\ Respond(200, [status |-> "OK", export |-> req.export_body])
       ELSE /\ Respond(500, [status |-> "FAIL", export |-> req.export_body])
            /\ UNCHANGED exports
    /\ UNCHANGED <<today, valVars, gcReady, req, calls, invoices, served>>

\* columns and relationships of database.models.Invoice
InvoiceAttributes ==
    {"id", "filename", "total", "vendor", "date", "export_path", "uploaded_at",
     "owner_id", "owner"}

\* keyword arguments of the Invoice(...) call of upload_invoice
UploadKeywords ==
    {"filename", "file_path", "export_path", "vendor", "invoice_date", "subtotal",
     "tax", "total", "data", "owner_id"}

UploadRow(id) ==
    [id |-> id, table |-> "database.models.Invoice", owner_id |-> req.user,
     filename |-> req.filename,
     export_path |-> Get(req.export_body, "path", Null),
     vendor |-> Get(req.normalized, "vendor", Null),
     total |-> Get(req.normalized, "total", Null)]

\* upload_invoice lines 109-126: the declarative constructor raises TypeError
\* on a keyword that is not an attribute of the class; nothing catches it
\* or a failing commit
PersistUpload ==
    /\ pc = "persist_upload"
    /\ calls' = Append(calls, "persist")
    /\ IF UploadKeywords \subseteq InvoiceAttributes
       THEN \E committed \in BOOLEAN :
               IF committed
               THEN /\ invoices' = Append(invoices, UploadRow(Len(invoices) + 1))
                    /\ Respond(200, [status |-> "OK", invoice_id |-> Len(invoices) + 1,
                                     export_path |-> Get(req.export_body, "path", Null)])
               ELSE /\ Respond(500, [detail |-> "Internal Server Error"])
                    /\ UNCHANGED invoices
       ELSE /\ Respond(500, [detail |-> "Internal Server Error"])
            /\ UNCHANGED invoices
    /\ UNCHANGED <<today, valVars, gcReady, req, exports, served>>

GatewayNext ==
    \/ StartRequest
    \/ SaveUpload
    \/ OcrStage
    \/ ParseStage
    \/ ValidateStage
    \/ PersistInvoice
    \/ ExportStage
    \/ RecordExport
    \/ PersistUpload

\* the service at start-up: the clock, and whether a sheet client was built
InitGateway ==
    /\ today \in Todays
    /\ arg = NoMapping
    /\ data = NoMapping
    /\ outcome = "none"
    /\ result = NewResult
    /\ ran = <<>>
    /\ gcReady \in BOOLEAN
    /\ GatewayIdle

SpecGateway == InitGateway /\ [][GatewayNext]_vars


(***************************************************************************)
(* Claims about the two upload endpoints                                   *)
(***************************************************************************)
Invoked(stage) == \E i \in 1..Len(calls) : calls[i] = stage

\* the validation stage of the request in hand has answered
ValidationReturned == req # NoRequest /\ DOMAIN req.val_body # {}

NonPass == ValidationReturned /\ Get(req.val_body, "status", "") # "PASS"

\* the request in hand committed an Invoice row
Committed == req # NoRequest /\ Len(invoices) > req.rows_before

\* C9: in process_invoice and in upload_invoice, once the validation stage
\* has returned a status other than PASS the request has ended with a 4xx
\* response, it has committed no Invoice row and it has invoked neither the
\* persist nor the export stage; a request that committed an Invoice row had
\* PASS from the validation stage.
C9_NonPassEndsRequest ==
    /\ NonPass =>
          /\ pc = "done"
          /\ response.code \in 400..499
          /\ ~Committed
          /\ ~Invoked("persist") /\ ~Invoked("export")
    /\ Committed =>
          /\ ValidationReturned
          /\ Get(req.val_body, "status", "") = "PASS"
          /\ Invoked("validate")

\* an upload_invoice request turned away by the validator, after an earlier
\* request was served
C9_Witness ==
    /\ NonPass
    /\ req.endpoint = "upload_invoice"
    /\ served = MaxRequests
    /\ response.code = 400
    /\ calls = <<"ocr", "parse", "validate">>

StageOrder == <<"ocr", "parse", "validate", "persist", "export">>

\* C10: in process_invoice and in upload_invoice the stages are invoked in
\* the order extraction, parsing, validation, persist, export, each after
\* the one before it returned, and the export stage is invoked only after
\* the request committed its Invoice row.
C10_PersistBeforeExport ==
    /\ Len(calls) <= Len(StageOrder) /\ calls = SubSeq(StageOrder, 1, Len(calls))
    /\ Invoked("export") => Committed

\* the export stage of the request in hand answered status FAIL
ExportFailed ==
    /\ req # NoRequest
    /\ Get(req.export_body, "status", "") = "FAIL"

\* C11: in process_invoice and in upload_invoice, a request whose export
\* stage reported status FAIL ends right after the export stage, with an
\* error status code and the export stage's body in the response; it is
\* never answered with status OK.
C11_ExportFailureSurfaced ==
    (ExportFailed /\ pc = "done") =>
        /\ response.code \in 400..599
        /\ Has(response.body, "export") /\ response.body.export = req.export_body
        /\ calls[Len(calls)] = "export"

(***************************************************************************)
(* A call of ExporterAgent.handle_coral on its own: arg is the envelope,   *)
(* outcome how the call ended and result the body of the response.         *)
(***************************************************************************)
\* the invoices sent for export: invoice_number a str with a blank, an empty
\* str, None, left out, or a number
ExportInvoices ==
    LET vendor == [vendor |-> Str(<<"A", "c">>)]
    IN  {vendor} \cup
        {Put(vendor, "invoice_number", n) :
            n \in {Str(<<"I", "N", "V", " ", "1">>), Str(<<>>), Null, Num(RatInt(1001))}}

\* the format selectors sent: those of each writer, in either case, an
\* unknown one and the empty one
ExportSelectors ==
    XlsxNames \cup SheetNames \cup
    {Csv, <<"C", "S", "V">>, <<"X", "l", "s", "x">>, <<"p", "d", "f">>, <<>>}

\* bodies of the messages sent to the exporter: invoice, format and
\* invoice_id each given or left out
ExportBodies ==
    LET withInvoice == {NoMapping} \cup {[invoice |-> i] : i \in ExportInvoices \cup {NoMapping}}
        withFormat(b) == {b} \cup {Put(b, "format", f) : f \in ExportSelectors}
        withId(b) == {b} \cup {Put(b, "invoice_id", n) : n \in {0, 7}}
    IN  UNION {UNION {withId(f) : f \in withFormat(b)} : b \in withInvoice}

ExportEnvelopes ==
    {make_message(t, "api-gateway", "exporter-agent", b, 1) :
        t \in {"export.invoice", "validate.invoice"}, b \in ExportBodies}

\* a sender holding an envelope, about to call the exporter
InitExporter ==
    /\ today = D18
    /\ arg \in ExportEnvelopes
    /\ data = NoMapping
    /\ outcome = "none"
    /\ result = NoMapping
    /\ ran = <<>>
    /\ gcReady \in BOOLEAN
    /\ GatewayIdle

\* exporter.handle_coral(envelope)
ExporterCall ==
    LET ExporterEnds(r) ==
            /\ outcome' = IF r.raised THEN "raised" ELSE "returned"
            /\ result' = r.resp.body
    IN
    /\ outcome = "none"
    /\ \E writes \in BOOLEAN : ExporterEnds(ExporterHandle(arg, "output", gcReady, writes))
    /\ UNCHANGED <<today, arg, data, ran, gwVars>>

SpecExporter == InitExporter /\ [][ExporterCall]_vars

\* the call in hand was an export.invoice request carrying an invoice
ExportOfInvoice ==
    /\ outcome # "none"
    /\ arg.type = "export.invoice"
    /\ ~NoInvoice(arg.body)

PassBody(b) == Get(b, "status", "") = "PASS" /\ Has(b, "file")

FailBody(b) == Get(b, "status", "") = "FAIL" /\ Has(b, "error")

\* C12: every export.invoice request carrying an invoice is answered, never
\* ended by an exception, and the body of the answer is either status PASS
\* with a file or status FAIL with an error.
C12_ExporterAlwaysAnswers ==
    ExportOfInvoice =>
        /\ outcome = "returned"
        /\ PassBody(result) \/ FailBody(result)

(***************************************************************************)
(* A call of ParserAgent._basic_parse on its own: arg is the text, outcome *)
(* how the call ended and result the dict returned.                        *)
(***************************************************************************)
\* "\n".join(lines)
RECURSIVE JoinLines(_)
JoinLines(lines) ==
    IF lines = <<>> THEN <<>>
    ELSE IF Len(lines) = 1 THEN Head(lines)
    ELSE Head(lines) \o <<"\n">> \o JoinLines(Tail(lines))

\* "2 x W @ 1.5 = 3.0" and "1 x Nut @ 2 = 2"
WidgetLine == <<"2", " ", "x", " ", "W", " ", "@", " ", "1", ".", "5", " ",
                "=", " ", "3", ".", "0">>
NutLine == <<"1", " ", "x", " ", "N", "u", "t", " ", "@", " ", "2", " ", "=",
             " ", "2">>

BoltLine == <<"1", " ", "x", " ", "B", " ", "@", " ", "2", ".", "3", "3", " ",
              "=", " ", "2", ".", "3", "3">>

\* lines of a text between its head and its totals: three that match the item
\* pattern with readable amounts, one whose unit price is "." and one whose
\* total is "1.2.3", and one that does not match
ItemLines ==
    {WidgetLine, NutLine, BoltLine,
     <<"1", " ", "x", " ", "W", " ", "@", " ", ".", " ", "=", " ", "5">>,
     <<"1", " ", "x", " ", "W", " ", "@", " ", "1", " ", "=", " ", "1", ".",
       "2", ".", "3">>,
     <<"W", "i", "d", "g", "e", "t", " ", "5", ".", "0", "0">>}

ParserTexts ==
    LET \* the invoice number, date and vendor lines, all given or all left out,
        \* or the number alone, written in
        \* lower case without a dash
        HeadLines ==
            {<<>>,
             <<<<"i", "n", "v", " ", "7">>>>,
             <<<<"I", "N", "V", "-", "7">>,
               <<"D", "a", "t", "e", ":", " ", "2", "0", "2", "5", "-", "0", "9", "-",
                 "1", "7">>,
               <<"V", "e", "n", "d", "o", "r", ":", " ", "A", "c">>>>}
        \* the Subtotal:, Tax: and Total: lines, each left out, readable, or followed
        \* by a token float() rejects
        SubtotalLines == {<<>>, <<<<"S", "u", "b", "t", "o", "t", "a", "l", ":", " ",
                                    "8", "0", ".", "5">>>>,
                          <<<<"S", "u", "b", "t", "o", "t", "a", "l", ":", " ", ".",
                              ".">>>>}
        TaxLines == {<<>>, <<<<"T", "a", "x", ":", " ", "8">>>>, <<<<"T", "a", "x",
                               ":", " ", ",">>>>}
        TotalLines == {<<>>, <<<<"T", "o", "t", "a", "l", ":", " ", "1", ",", "0", "0",
                                 "0", ".", "5">>>>,
                       <<<<"T", "o", "t", "a", "l", ":", " ", "1", ".", "2", ".",
                           "3">>>>}
    IN
    {JoinLines(h \o items \o s \o x \o t) :
        h \in HeadLines, items \in UNION {[1..n -> ItemLines] : n \in 0..MaxLines},
        s \in SubtotalLines, x \in TaxLines, t \in TotalLines}

\* a caller holding a text, about to call _basic_parse
InitParser ==
    /\ today = D18
    /\ arg \in ParserTexts
    /\ data = NoMapping
    /\ outcome = "none"
    /\ result = NoMapping
    /\ ran = <<>>
    /\ gcReady = FALSE
    /\ GatewayIdle

\* parser._basic_parse(text)
ParserCall ==
    LET ParserEnds(r) ==
            /\ outcome' = IF r.raised THEN "raised" ELSE "returned"
            /\ result' = r.invoice
    IN
    /\ outcome = "none"
    /\ ParserEnds(BasicParse(arg))
    /\ UNCHANGED <<today, arg, data, ran, gwVars>>

SpecParser == InitParser /\ [][ParserCall]_vars

\* C13: _basic_parse returns for every text, and the dict it returns holds
\* all seven fields of an invoice record.
C13_ParserNeverFails ==
    outcome # "none" =>
        /\ outcome = "returned"
        /\ DOMAIN result = {RequiredTop[i] : i \in 1..Len(RequiredTop)}

\* the matches of the item pattern on the lines of a text, in text order
MatchesOf(text) ==
    SelectSeq([i \in 1..Len(SplitLines(text)) |-> ItemMatch(SplitLines(text)[i])],
              LAMBDA m : m.ok)

LabelNames == {<<"S", "u", "b", "t", "o", "t", "a", "l">>,
               <<"T", "a", "x">>, <<"T", "o", "t", "a", "l">>}

LabelGiven(text, label) == LabelMatch(text, label).ok

NoLabels(text) == \A label \in LabelNames : ~LabelGiven(text, label)

\* an amount captured on an item line or after a label does not read as a number
Unreadable(text) ==
    \/ \E i \in 1..Len(MatchesOf(text)) :
          ~Amount(MatchesOf(text)[i].unit).ok \/ ~Amount(MatchesOf(text)[i].total).ok
    \/ \E label \in LabelNames :
          LabelGiven(text, label) /\ ~Amount(LabelMatch(text, label).g).ok

\* the fallback item: Service, quantity 1, unit_price 50.0, total 50.0
ServiceItem ==
    Obj([description |-> Str(<<"S", "e", "r", "v", "i", "c", "e">>),
         quantity |-> Num(RatInt(1)), unit_price |-> Num(RatInt(50)),
         total |-> Num(RatInt(50))])

FallbackTotals(r) ==
    /\ r["subtotal"] = Num(RatInt(50))
    /\ r["tax"] = Num(RatInt(5))
    /\ r["total"] = Num(RatInt(55))

\* the items of the matching lines, in text order
MatchedItems(text) == [i \in 1..Len(MatchesOf(text)) |-> ParsedItem(MatchesOf(text)[i])]

SubtotalLabel == <<"S", "u", "b", "t", "o", "t", "a", "l">>
TaxLabel == <<"T", "a", "x">>
TotalLabel == <<"T", "o", "t", "a", "l">>

\* the amount written after a label of the text
Stated(text, label) == Amount(LabelMatch(text, label).g).v

\* the value of field k of the returned record is the amount stated after
\* label when the text has the label, and derived otherwise
StatedOr(label, k, derived) ==
    result[k].v = IF LabelGiven(arg, label) THEN Stated(arg, label) ELSE derived

\* x is a number of cents, within half a cent of q
RoundedToCents(x, q) ==
    /\ (100 * x.n) % x.d = 0
    /\ ~RatGt(RatMul(RatInt(200), x), RatAdd(RatMul(RatInt(200), q), RatInt(1)))
    /\ ~RatGt(RatMul(RatInt(200), q), RatAdd(RatMul(RatInt(200), x), RatInt(1)))

\* C20 as stated: in the returned record each of subtotal, tax and total is
\* the stated amount or, its label being absent, derived on its own: subtotal
\* as the sum of the line-item totals, tax as 10% of the subtotal in effect,
\* total as subtotal + tax in effect; so with no label at all subtotal is the
\* sum of the item totals and total is subtotal + tax.
C20_TotalsDerivedIndependently ==
    outcome = "returned" =>
        /\ StatedOr(SubtotalLabel, "subtotal", StoredSum(result["line_items"].items))
        /\ StatedOr(TaxLabel, "tax", RatMul(result["subtotal"].v, Rat(1, 10)))
        /\ StatedOr(TotalLabel, "total", FloatAdd(result["subtotal"].v, result["tax"].v))
        /\ NoLabels(arg) =>
              /\ result["subtotal"].v = StoredSum(result["line_items"].items)
              /\ result["total"].v = FloatAdd(result["subtotal"].v, result["tax"].v)

\* C20 amended: ... tax, its label being absent, is 10% of the subtotal in
\* effect rounded to two decimals ...
C20_TotalsDerivedTaxRounded ==
    outcome = "returned" =>
        /\ StatedOr(SubtotalLabel, "subtotal", StoredSum(result["line_items"].items))
        /\ \/ LabelGiven(arg, TaxLabel) /\ result["tax"].v = Stated(arg, TaxLabel)
           \/ /\ ~LabelGiven(arg, TaxLabel)
              /\ RoundedToCents(result["tax"].v, RatMul(result["subtotal"].v, Rat(1, 10)))
        /\ StatedOr(TotalLabel, "total", FloatAdd(result["subtotal"].v, result["tax"].v))
        /\ NoLabels(arg) =>
              /\ result["subtotal"].v = StoredSum(result["line_items"].items)
              /\ result["total"].v = FloatAdd(result["subtotal"].v, result["tax"].v)

\* no label: 2.33 + 2 is 4.33, a tenth of it rounds to 0.43, the total is 4.76
C20_Witness ==
    /\ outcome = "returned"
    /\ arg = JoinLines(<<BoltLine, NutLine>>)
    /\ result["subtotal"] = Num(Rat(433, 100))
    /\ result["tax"] = Num(Rat(43, 100))
    /\ result["total"] = Num(Rat(476, 100))

(***************************************************************************)
(* C21                                                                     *)
(***************************************************************************)
\* INV-<digits>
DashedNumber(n) ==
    /\ Len(n) > 4
    /\ SubSeq(n, 1, 4) = INV
    /\ \A i \in 5..Len(n) : n[i] \in DigitChars

\* C21: the invoice_number of every record the parser returns is INV-UNKNOWN
\* or of the form INV-<digits>, and so passes the validator's rule that an
\* invoice number starts with "INV-".
C21_NumberHasPrefix ==
    outcome = "returned" =>
        /\ \/ result["invoice_number"].s = INV \o <<"U", "N", "K", "N", "O", "W", "N">>
           \/ DashedNumber(result["invoice_number"].s)
        /\ InvoiceNumberErrors(result) = <<>>

(***************************************************************************)
(* Further claims about ValidatorAgent.run_data                            *)
(***************************************************************************)
\* C15: after run_data(data) returned, the caller's mapping is what it was
\* before the call, every line item's quantity, unit_price and total
\* included.
C15_CallerDataUnchanged ==
    Returned => data = arg

\* the arithmetic mismatches of record d, as validate_business_rules lists
\* them: one entry per line item that is off, in list order, then the
\* subtotal, then the total
ExpectedBusiness(d) ==
    LET off == SelectSeq([i \in 1..Len(ItemsOf(d)) |-> i], LAMBDA i : i \in OffItems(d))
        entry(i) ==
            [kind |-> "Line item total mismatch", index |-> i - 1,
             expected |-> RatMul(ItemFloat(ItemsOf(d)[i], "quantity"),
                                 ItemFloat(ItemsOf(d)[i], "unit_price")),
             got |-> Num(ItemFloat(ItemsOf(d)[i], "total"))]
    IN  [j \in 1..Len(off) |-> entry(off[j])]
        \o (IF SubtotalConsistent(d) THEN <<>>
            ELSE <<[kind |-> "Subtotal mismatch", expected |-> SumTotals(ItemsOf(d)),
                    got |-> Num(ToFloat(d["subtotal"]).v)]>>)
        \o (IF TotalConsistent(d) THEN <<>>
            ELSE <<[kind |-> "Total mismatch",
                    expected |-> FloatAdd(ToFloat(d["subtotal"]).v, ToFloat(d["tax"]).v),
                    got |-> Num(ToFloat(d["total"]).v)]>>)

\* the custom violations of record d, in the order of the three rules; none
\* of them looks at the line items or at the total
ExpectedCustomKinds(d) ==
    (IF VendorGiven(d) THEN <<>> ELSE <<"Vendor is missing or empty">>)
        \o (IF TaxWithinLimit(d) THEN <<>> ELSE <<"Tax rate too high">>)
        \o (IF NumberPrefixed(d) THEN <<>> ELSE <<"Invalid invoice number format">>)

KindsInOrder(errs) == [i \in 1..Len(errs) |-> errs[i].kind]

\* C17: for every record that got past the schema and the date check, the
\* business and the custom check both ran; business_errors is the full list
\* of arithmetic mismatches of the record and custom_errors the full list of
\* its custom violations, which depends on vendor, tax, subtotal and invoice
\* number only and so is the same whether or not business_errors is empty.
C17_BothChecksAccumulate ==
    PastDateCheck =>
        /\ ran = <<"normalize", "schema", "date", "business", "custom">>
        /\ result.business_errors = ExpectedBusiness(arg)
        /\ KindsInOrder(result.custom_errors) = ExpectedCustomKinds(arg)
        /\ (result.status = "PASS") <=>
              (result.business_errors = <<>> /\ result.custom_errors = <<>>)

\* a record with mismatches of all three kinds and two custom violations
C17_Witness ==
    /\ PastDateCheck
    /\ KindsInOrder(result.business_errors) =
          <<"Line item total mismatch", "Subtotal mismatch", "Total mismatch">>
    /\ KindsInOrder(result.custom_errors) =
          <<"Tax rate too high", "Invalid invoice number format">>

Flagged(kind) ==
    \E i \in 1..Len(result.custom_errors) : result.custom_errors[i].kind = kind

\* an amount a double holds exactly
ExactDouble(q) == q.d \in {1, 2, 4, 8}

UnparsableDate(d) == d["date"].s # <<>> /\ ~DateOf(d).ok

HasSlash(d) == \E i \in 1..Len(d["date"].s) : d["date"].s[i] = "/"

\* C19: for every schema-valid record run_data returns, and: an unparsable
\* date string is left as it is in normalized_data and gives FAIL with exactly
\* one date_errors entry; an empty date string gives the entry "Missing
\* invoice date"; a date not after today gives no date error; a date written
\* with '/' that parses is shown as YYYY-MM-DD in normalized_data.
C19_DatesCheckedAndNormalized ==
    (outcome # "none" /\ SchemaValid(arg)) =>
        /\ Returned
        /\ UnparsableDate(arg) =>
              /\ result.normalized_data.f["date"] = arg["date"]
              /\ result.status = "FAIL"
              /\ Len(result.date_errors) = 1
              /\ result.date_errors[1].kind = "Invalid date format"
        /\ arg["date"].s = <<>> =>
              /\ result.status = "FAIL"
              /\ result.date_errors = <<[kind |-> "Missing invoice date"]>>
        /\ DateAcceptable(arg, today) => result.date_errors = <<>>
        /\ (HasSlash(arg) /\ DateOf(arg).ok) =>
              result.normalized_data.f["date"] = Str(StrfDate(DateOf(arg).date))

\* C22: in every result run_data returns, status is PASS exactly when valid
\* is true and exactly when the four error lists are empty; schema_errors and
\* date_errors are never both non-empty, and when either is non-empty
\* business_errors and custom_errors are empty.
C22_ResultConsistent ==
    Returned =>
        /\ (result.status = "PASS") <=> result.valid
        /\ result.status \in {"PASS", "FAIL"}
        /\ result.valid <=> NoErrors(result)
        /\ ~(result.schema_errors # <<>> /\ result.date_errors # <<>>)
        /\ (result.schema_errors # <<>> \/ result.date_errors # <<>>) =>
              (result.business_errors = <<>> /\ result.custom_errors = <<>>)

\* a record with an unparsable date, an item that is off and an invoice number
\* without the prefix: the date error is the only entry
C22_Witness ==
    /\ Returned
    /\ SchemaValid(arg) /\ UnparsableDate(arg)
    /\ OffItems(arg) # {} /\ ~NumberPrefixed(arg)
    /\ result.status = "FAIL" /\ ~result.valid
    /\ Len(result.date_errors) = 1
    /\ result.schema_errors = <<>>
    /\ result.business_errors = <<>> /\ result.custom_errors = <<>>

(***************************************************************************)
(* Further claims about the upload endpoints                               *)
(***************************************************************************)
\* the request in hand is a process_invoice request on a day not before
\* the date of the simulated invoice
ProcessOnOrAfterInvoiceDate ==
    /\ req # NoRequest
    /\ req.endpoint = "process_invoice"
    /\ ~DateGt(D18, today)

\* C16: whatever file is uploaded, the extraction stage hands the same fixed
\* text to the handler; in process_invoice, on a day not before 2025-09-18,
\* the validation of the record parsed from it answers PASS, and a request
\* whose file was stored is never ended before the persist stage.
C16_FixedTextReachesPersist ==
    /\ (req # NoRequest /\ Invoked("ocr")) => req.invoice_text = simulated_text
    /\ ProcessOnOrAfterInvoiceDate =>
          /\ Invoked("validate") =>
                /\ Get(req.val_body, "status", "") = "PASS"
                /\ pc = "persist" \/ Invoked("persist")
          /\ (pc = "done" /\ calls # <<>>) => Invoked("persist")

\* a process_invoice upload of a text file, on 2025-09-18, that committed
\* its Invoice row
C16_Witness ==
    /\ ProcessOnOrAfterInvoiceDate
    /\ req.filename = "notes.txt"
    /\ Invoked("persist")
    /\ Committed

(***************************************************************************)
(* C23                                                                     *)
(***************************************************************************)
\* ids of the Invoice rows the request in hand committed
RowsOfRequest == (req.rows_before + 1)..Len(invoices)

\* C23: in process_invoice a step adds an Export row only when the export
\* stage, the last one invoked, returned PASS, and the row added references
\* the Invoice row this request committed before, which belongs to the
\* requesting user; a request that ends because its export failed has
\* committed its Invoice row and leaves it without an Export row.
C23_ExportRowAfterPass ==
    [][ /\ exports' # exports =>
              /\ req.endpoint = "process_invoice"
              /\ calls # <<>> /\ calls[Len(calls)] = "export"
              /\ Get(req.export_body, "status", "") = "PASS"
              /\ exports' = Append(exports, exports'[Len(exports')])
              /\ invoices' = invoices
              /\ exports'[Len(exports')].invoice_id \in RowsOfRequest
              /\ invoices[exports'[Len(exports')].invoice_id].user_id = req.user
        /\ (pc # "done" /\ pc' = "done" /\ req.endpoint = "process_invoice"
                        /\ ExportFailed) =>
              /\ RowsOfRequest = {req.inv_id}
              /\ invoices' = invoices
              /\ \A i \in 1..Len(exports') : exports'[i].invoice_id # req.inv_id
      ]_vars

\* the second user's request added an Export row for the Invoice row it
\* committed, after the first user's request had committed a row of its own
C23_Witness ==
    /\ pc = "done"
    /\ req.endpoint = "process_invoice" /\ req.user = 2
    /\ Len(invoices) = 2 /\ invoices[1].user_id = 1 /\ invoices[2].user_id = 2
    /\ exports # <<>>
    /\ exports[Len(exports)].invoice_id = 2
    /\ response.code = 200

(***************************************************************************)
(* The store behind the read endpoints: api/gateway.py list_invoices and   *)
(* download_export over models.Invoice and models.Export, and              *)
(* api/invoice_routes.py get_invoice_history, get_invoice and              *)
(* delete_invoice over database.models.Invoice.  The database file         *)
(* outlives the service, so a start may find rows in it.  A row's id is    *)
(* its place in invoices; a deleted row leaves its place behind.           *)
(***************************************************************************)
\* a row of database.models.Invoice found in the file at start-up
StoredInvoice(id, owner) ==
    [id |-> id, table |-> "database.models.Invoice", owner_id |-> owner,
     filename |-> IF owner = 1 THEN "scan.pdf" ELSE "notes.txt",
     export_path |-> Null, vendor |-> Null, total |-> Null]

\* what data/invoices.db holds when the service starts
StoredAtStart == {<<>>, <<StoredInvoice(1, 1), StoredInvoice(2, 2)>>}

\* the place of a row db.delete removed
DeletedRow(id) == [id |-> id, table |-> "deleted"]

\* the request a read or delete endpoint serves
Ask(endpoint, user, id) == [endpoint |-> endpoint, user |-> user, id |-> id]

AtRest == pc \in {"idle", "done"}

\* r.exports[-1] if r.exports else None, as list_invoices reports it
LatestExport(r) ==
    LET mine == SelectSeq(exports, LAMBDA e : e.invoice_id = r.id)
        latest == mine[Len(mine)]
    IN  IF mine = <<>>
        THEN [id |-> Null, format |-> Null, path |-> Null]
        ELSE [id |-> latest.id, format |-> latest.export_format,
              path |-> latest.export_path]

\* gateway.py list_invoices: the user's rows, the newest first
list_invoices ==
    LET Mine(u) == SelectSeq(invoices,
                             LAMBDA r : r.table = "models.Invoice" /\ r.user_id = u)
        Newest(rows) == [i \in 1..Len(rows) |-> rows[Len(rows) + 1 - i]]
        Entry(r) == [invoice_id |-> r.id, invoice_number |-> r.invoice_number,
                     vendor |-> r.vendor, date |-> r.date, raw_file |-> r.raw_file,
                     normalized |-> r.normalized_json, export |-> LatestExport(r)]
        Results(rows) == [i \in 1..Len(rows) |-> Entry(rows[i])]
    IN
    /\ AtRest
    /\ \E u \in Users :
          /\ req' = Ask("list_invoices", u, 0)
          /\ Respond(200, [invoices |-> Results(Newest(Mine(u)))])
    /\ calls' = <<>>
    /\ UNCHANGED <<today, valVars, gcReady, invoices, exports, served>>

\* answers a download without looking at the owner
Forbidden_Never(inv, user) == FALSE

\* download_export line 235
Forbidden(inv, user) == inv.user_id # user

\* gateway.py download_export; whether the exported file is still on disk
\* is the environment's choice
download_export ==
    LET Answer(u, export_id) ==
            IF export_id > Len(exports)
            THEN Respond(404, [detail |-> "Export not found"])
            ELSE LET ex == exports[export_id]
                     inv == invoices[ex.invoice_id]
                 IN  IF Forbidden(inv, u)
                     THEN Respond(403, [detail |-> "Forbidden"])
                     ELSE IF ex.export_format = <<"g", "s", "h", "e", "e", "t", "s">>
                     THEN Respond(200, [url |-> ex.export_path])
                     ELSE \E exists \in BOOLEAN :
                             IF ex.export_path = Null \/ ~exists
                             THEN Respond(404, [detail |-> "Export file not found"])
                             ELSE Respond(200, [file |-> ex.export_path])
    IN
    /\ AtRest
    /\ \E u \in Users, export_id \in 1..(Len(exports) + 1) :
          /\ req' = Ask("download_export", u, export_id)
          /\ Answer(u, export_id)
    /\ calls' = <<>>
    /\ UNCHANGED <<today, valVars, gcReady, invoices, exports, served>>

\* db.query(Invoice).filter(Invoice.id == invoice_id,
\*                          Invoice.owner_id == user.id)
OwnedInvoice(invoice_id, user) ==
    SelectSeq(invoices, LAMBDA r : /\ r.table = "database.models.Invoice"
                                   /\ r.id = invoice_id
                                   /\ r.owner_id = user)

\* invoice_routes.py get_invoice_history
get_invoice_history ==
    /\ AtRest
    /\ \E u \in Users :
          /\ req' = Ask("get_invoice_history", u, 0)
          /\ Respond(200, SelectSeq(invoices,
                                    LAMBDA r : /\ r.table = "database.models.Invoice"
                                               /\ r.owner_id = u))
    /\ calls' = <<>>
    /\ UNCHANGED <<today, valVars, gcReady, invoices, exports, served>>

\* invoice_routes.py get_invoice
get_invoice ==
    /\ AtRest
    /\ \E u \in Users, invoice_id \in 1..(Len(invoices) + 1) :
          /\ req' = Ask("get_invoice", u, invoice_id)
          /\ LET found == OwnedInvoice(invoice_id, u)
             IN  IF found = <<>>
                 THEN Respond(404, [detail |-> "Invoice not found"])
                 ELSE Respond(200, found[1])
    /\ calls' = <<>>
    /\ UNCHANGED <<today, valVars, gcReady, invoices, exports, served>>

\* invoice_routes.py delete_invoice
delete_invoice ==
    /\ AtRest
    /\ \E u \in Users, invoice_id \in 1..(Len(invoices) + 1) :
          /\ req' = Ask("delete_invoice", u, invoice_id)
          /\ LET found == OwnedInvoice(invoice_id, u)
             IN  IF found = <<>>
                 THEN /\ Respond(404, [detail |-> "Invoice not found"])
                      /\ UNCHANGED invoices
                 ELSE /\ invoices' = [invoices EXCEPT ![invoice_id] =
                                                          DeletedRow(invoice_id)]
                      /\ Respond(200, [status |-> "deleted",
                                       invoice_id |-> invoice_id])
    /\ calls' = <<>>
    /\ UNCHANGED <<today, valVars, gcReady, exports, served>>

\* an upload to either endpoint, while the store's bound allows one
StartUpload == served < MaxUploads /\ StartRequest

StoreNext ==
    \/ StartUpload
    \/ SaveUpload
    \/ OcrStage
    \/ ParseStage
    \/ ValidateStage
    \/ PersistInvoice
    \/ ExportStage
    \/ RecordExport
    \/ PersistUpload
    \/ list_invoices
    \/ download_export
    \/ get_invoice_history
    \/ get_invoice
    \/ delete_invoice

InitStore ==
    /\ today \in Todays
    /\ arg = NoMapping
    /\ data = NoMapping
    /\ outcome = "none"
    /\ result = NewResult
    /\ ran = <<>>
    /\ gcReady \in BOOLEAN
    /\ req = NoRequest
    /\ pc = "idle"
    /\ calls = <<>>
    /\ invoices \in StoredAtStart
    /\ exports = <<>>
    /\ response = NoResponse
    /\ served = 0

SpecStore == InitStore /\ [][StoreNext]_vars

(***************************************************************************)
(* C24                                                                     *)
(***************************************************************************)
\* the user a row of either Invoice class belongs to; 0 for a deleted row
OwnerOf(r) ==
    CASE r.table = "models.Invoice" -> r.user_id
      [] r.table = "database.models.Invoice" -> r.owner_id
      [] OTHER -> 0

\* the step left both tables as they were
StoreUnchanged == invoices' = invoices /\ exports' = exports

Intents == {"ocr.extract", "parser.parse_text", "validate.invoice", "export.invoice"}

\* the agents by their ids, each with the one intent its handler serves
SupportedIntent ==
    [a \in {"ocr-agent", "parser-agent", "validator-agent", "exporter-agent"} |->
        CASE a = "ocr-agent" -> "ocr.extract"
          [] a = "parser-agent" -> "parser.parse_text"
          [] a = "validator-agent" -> "validate.invoice"
          [] a = "exporter-agent" -> "export.invoice"]

\* the record the parser reads out of the fixed text
SimulatedInvoice == BasicParse(simulated_text).invoice

\* the bodies sent with each intent: a file to read; the fixed text, an
\* empty text and a text whose tax float() rejects; the parsed record, the
\* same with a subtotal float() rejects, a record of a vendor only, an
\* empty record or none; the bodies sent for export that name no row
BodiesOfIntent(intent) ==
    CASE intent = "ocr.extract" ->
            {[file_info |-> [filename |-> f, path |-> f]] : f \in FileNames}
      [] intent = "parser.parse_text" ->
            {[invoice_text |-> t] :
                t \in {simulated_text, <<>>, <<"T", "a", "x", ":", " ", ",">>}}
      [] intent = "validate.invoice" ->
            {NoMapping} \cup
            {[invoice |-> i] :
                i \in {NoMapping, SimulatedInvoice,
                       Put(SimulatedInvoice, "subtotal", Str(<<"x">>)),
                       [vendor |-> Str(<<"A", "c">>)]}}
      [] intent = "export.invoice" -> {b \in ExportBodies : ~Has(b, "invoice_id")}

AgentEnvelopes ==
    UNION {{make_message(t, s, a, b, n) :
               s \in {"api-gateway", "invoice-endpoint"},
               a \in DOMAIN SupportedIntent, b \in BodiesOfIntent(t), n \in {1, 2}} :
           t \in Intents}

\* a sender holding an envelope, about to call the agent it names
InitAgents ==
    /\ today \in Todays
    /\ arg \in AgentEnvelopes
    /\ data = NoMapping
    /\ outcome = "none"
    /\ result = NoMapping
    /\ ran = <<>>
    /\ gcReady \in BOOLEAN
    /\ GatewayIdle

\* the sender once handle_coral ended with r
Answered(r) ==
    /\ outcome' = IF r.raised THEN "raised" ELSE "returned"
    /\ response' = IF r.raised THEN NoResponse ELSE r.resp
    /\ UNCHANGED <<today, arg, data, result, ran, gcReady, req, pc, calls, invoices,
                   exports, served>>

OcrCall ==
    /\ outcome = "none" /\ arg.to = "ocr-agent"
    /\ Answered([raised |-> FALSE, resp |-> OcrHandle(arg)])

ParserHandleCall ==
    /\ outcome = "none" /\ arg.to = "parser-agent"
    /\ Answered(ParserHandle(arg))

ValidatorHandleCall ==
    /\ outcome = "none" /\ arg.to = "validator-agent"
    /\ Answered(ValidatorHandle(arg, today))

ExporterHandleCall ==
    /\ outcome = "none" /\ arg.to = "exporter-agent"
    /\ \E writes \in BOOLEAN : Answered(ExporterHandle(arg, "output", gcReady, writes))

AgentsNext ==
    \/ OcrCall
    \/ ParserHandleCall
    \/ ValidatorHandleCall
    \/ ExporterHandleCall

SpecAgents == InitAgents /\ [][AgentsNext]_vars

\* the request asks for something the agent called does not serve, or asks
\* the validator or the exporter for its stage without an invoice
NotServed ==
    \/ arg.type # SupportedIntent[arg.to]
    \/ /\ arg.type \in {"validate.invoice", "export.invoice"}
       /\ ~Has(arg.body, "invoice") \/ arg.body["invoice"] = NoMapping

\* C25: whichever agent is called and whatever the request, the call
\* returns an envelope whose id is "resp-" and the request's id, whose type
\* is the request's type and ".response", whose from is the agent's id and
\* whose to is the request's sender; a request of an intent the agent does
\* not serve, or a validate.invoice or export.invoice request with no or an
\* empty invoice, is answered with exactly {status: FAIL, error}.
C25_EveryRequestAnswered ==
    outcome # "none" =>
        /\ outcome = "returned"
        /\ response.id = <<"resp", arg.id>>
        /\ response.type = <<arg.type, "response">>
        /\ response.from = arg.to
        /\ response.to = arg.from
        /\ NotServed =>
              /\ DOMAIN response.body = {"status", "error"}
              /\ response.body.status = "FAIL"

====
